---- MODULE Spec2Model ----
(***************************************************************************)
(* The open-document session of DeviseOS (TabProvider in                   *)
(* src/DeviseOS/DeviseOS/src/contexts/TabContext.tsx): the ordered tab     *)
(* list, the recorded active-tab id, and the client-local store the        *)
(* session is saved to.  Every operation of the context is one action;     *)
(* its React state updaters are applied in the order they are queued.      *)
(***************************************************************************)
EXTENDS Integers, Sequences, FiniteSets, TLC

\* ------------------------------------------------------------- bounds
\* Capacity of the tab list.  The source sets 20 (TabContext.tsx:50); the
\* model is checked with a scaled-down capacity so that a full list and an
\* eviction are reached.
MAX_TABS == 3
\* Number of tab ids generateTabId hands out in one behaviour.
MaxIds == 4
\* Largest clock value (milliseconds) Date.now() reaches.
MaxTime == 1
\* Number of open tabs that carry a changed title or the unsaved-changes
\* flag at the same time.  No operation reads either field, so one marked
\* tab shows whether an operation keeps the fields with their tab.
MaxEdited == 1
\* Number of tab ids handed out in a behaviour in which a tab is edited;
\* tabs are edited before the session is first saved.
MaxEditIds == 2
\* Number of tab ids handed out in a behaviour that saves the session: the
\* store holds a copy of a whole session, so behaviours with a saved
\* session are followed for smaller sessions.
MaxSavedIds == 1
MaxStale == 4
MaxNotebooks == 2
MaxSections == 1
MaxStorePages == 3
MaxLinks == 2
MaxListedPages == 1
\* tab ids issued in the session with page deletion
MaxDeleteIds == 2
\* clock readings in the session whose operations read distinct times
MaxClock == 5

\* ------------------------------------------------------------- values
\* activeTabId: string | null -- null is 0, tab ids are 1, 2, ...
Null == 0

\* The period of the auto-save interval, 30000 ms, in units of 10 s.
AUTO_SAVE_PERIOD == 3
\* content.pageId?: string -- the absent (undefined) pageId
NoPage == "undefined"
PageIds == {"p1", "p2"}
\* The titles updateTabTitle is called with.
NewTitles == {"Renamed"}

\* The descriptors (Omit<Tab, 'id' | 'isActive' | 'lastAccessed'>) the
\* callers of openTab pass: a page with its pageId, or a fixed view with a
\* route and no pageId.  Every caller passes hasUnsavedChanges: false.
Descriptors ==
    {[title |-> "Page", type |-> "page", pageId |-> p, hasUnsavedChanges |-> FALSE]
        : p \in PageIds}
    \cup {[title |-> "Dashboard", type |-> "dashboard", pageId |-> NoPage,
           hasUnsavedChanges |-> FALSE]}

\* location.pathname: the three routes the route effect opens a tab for,
\* and a route it has no branch for.
FixedRoutes == {"/", "/search", "/settings"}
Routes == FixedRoutes \cup {"/note/n1"}

\* The descriptor the route effect passes to openTab on a fixed route.
RouteDescriptor(path) ==
    [title |-> IF path = "/" THEN "Dashboard"
               ELSE IF path = "/search" THEN "Search" ELSE "Settings",
     type |-> IF path = "/" THEN "dashboard"
              ELSE IF path = "/search" THEN "search" ELSE "settings",
     pageId |-> NoPage, hasUnsavedChanges |-> FALSE]

\* TabManager is mounted on the start route and its effect has not run.
NewSync == [route |-> "/", due |-> TRUE]

\* What an array slot holds after splice() inserted the `undefined` it got
\* from removing nothing.
Undefined ==
    [id |-> Null, title |-> "undefined", type |-> "undefined", pageId |-> NoPage,
     hasUnsavedChanges |-> FALSE, isActive |-> FALSE, lastAccessed |-> 0]

\* localStorage.getItem(TAB_STORAGE_KEY) === null
NoSession == [saved |-> FALSE, tabs |-> <<>>, activeTabId |-> Null]

VARIABLES
    tabs,          \* useState<Tab[]>([])
    activeTabId,   \* useState<string | null>(null)
    storage,       \* localStorage[TAB_STORAGE_KEY]
    now,           \* the clock new Date() reads
    nextId,        \* the next id generateTabId returns
    last,          \* the last operation called, its arguments and its result
    deleted,       \* the page ids for which delete_page has succeeded
    deletedAtSave, \* deleted, as it was when saveTabs last wrote the store
    damage,        \* what another writer made of localStorage[TAB_STORAGE_KEY]
    timer,         \* time since the auto-save effect last called setInterval
    staleFor,      \* time the session has differed from the stored one
    pageContent,   \* TabContent: the pageIds whose page is cached
    fetching,      \* TabContent: the getPage calls that have not settled
    backend,       \* the durable store: notebooks, sections, pages, links
    nb,            \* NotebookProvider: its useState cells
    linking,       \* PageLinking: its useState cells
    sync,          \* TabManager: the pathname, and whether its route effect is due
    error          \* TabContent: the pageIds whose load ended in an error

vars == <<tabs, activeTabId, storage, now, nextId, last, deleted, deletedAtSave,
          damage, timer, staleFor, pageContent, fetching, backend, nb, linking, sync, error>>

\* ------------------------------------------------------------ helpers
\* Array.prototype.findIndex, 1-based; 0 when nothing matches (-1 in JS).
\* flags[i] is the callback's result for the i-th element.
RECURSIVE FindFrom(_, _)
FindFrom(flags, i) ==
    IF i > Len(flags) THEN 0
    ELSE IF flags[i] THEN i
    ELSE FindFrom(flags, i + 1)

findIndex(flags) == FindFrom(flags, 1)

\* prev.findIndex(tab => tab.id === tabId)
IndexOfId(seq, tabId) ==
    findIndex([ix \in 1..Len(seq) |-> seq[ix].id = tabId])

\* tabs.findIndex(tab => tab.isActive)
IndexOfActive(seq) ==
    findIndex([ix \in 1..Len(seq) |-> seq[ix].isActive])

\* The state the operations work on: the two useState cells.
State(t, a) == [tabs |-> t, activeTabId |-> a]

\* ------------------------------------------------------------ switchToTab
\* (variant for C8: every tab's lastAccessed is refreshed)
switchToTabTabsTouchAll(prev, tabId, t) ==
    LET Upd(tab) == [tab EXCEPT !.isActive = (tab.id = tabId),
                                !.lastAccessed = t]
    IN  [ix \in 1..Len(prev) |-> Upd(prev[ix])]

\* (variant for C29: lastAccessed is left as it was)
switchToTabTabsKeepsTime(prev, tabId, t) ==
    LET Upd(tab) == [tab EXCEPT !.isActive = (tab.id = tabId)]
    IN  [ix \in 1..Len(prev) |-> Upd(prev[ix])]

\* The updater of switchToTab: isActive := (id = tabId), and lastAccessed :=
\* new Date() for the tab with that id.
switchToTabTabs(prev, tabId, t) ==
    LET Upd(tab) == [tab EXCEPT !.isActive = (tab.id = tabId),
                                !.lastAccessed = IF tab.id = tabId THEN t ELSE @]
    IN  [ix \in 1..Len(prev) |-> Upd(prev[ix])]

\* switchToTab(tabId): setTabs(updater); setActiveTabId(tabId) -- no test
\* that tabId is open.
switchToTab(s, tabId, t) == State(switchToTabTabs(s.tabs, tabId, t), tabId)

\* ------------------------------------------------------------ closeTab
\* prev.filter(tab => tab.id !== tabId)
WithoutId(prev, tabId) ==
    LET Keep(tab) == tab.id # tabId IN SelectSeq(prev, Keep)

\* (variant for C6: always the tab to the left, the first when there is none)
nextIndexPredecessor(tabIndex, newLen) ==
    IF tabIndex > 1 THEN tabIndex - 1 ELSE 1

\* nextIndex = tabIndex < newTabs.length ? tabIndex : tabIndex - 1, with
\* tabIndex 1-based here (so the test reads tabIndex <= newLen).
nextIndexAfterClose(tabIndex, newLen) ==
    IF tabIndex <= newLen THEN tabIndex ELSE tabIndex - 1

\* Does the updater of closeTab take its first branch (the closed tab was
\* active and others remain)?
closeTabSwitches(prev, tabId) ==
    LET tabIndex == IndexOfId(prev, tabId) IN
    /\ tabIndex # 0
    /\ prev[tabIndex].isActive
    /\ Len(WithoutId(prev, tabId)) > 0

\* The tab list the updater of closeTab returns.
closeTabTabs(prev, tabId) ==
    LET tabIndex == IndexOfId(prev, tabId)
        newTabs  == WithoutId(prev, tabId)
    IN  IF tabIndex = 0 THEN prev
        ELSE IF closeTabSwitches(prev, tabId)
        THEN [newTabs EXCEPT
                 ![nextIndexAfterClose(tabIndex, Len(newTabs))].isActive = TRUE]
        ELSE newTabs

\* Does the updater of closeTab call setActiveTabId?
closeTabSetsActive(prev, tabId) ==
    /\ IndexOfId(prev, tabId) # 0
    /\ \/ closeTabSwitches(prev, tabId)
       \/ Len(WithoutId(prev, tabId)) = 0

\* The id the updater of closeTab passes to setActiveTabId.
closeTabActive(prev, tabId) ==
    LET tabIndex == IndexOfId(prev, tabId)
        newTabs  == WithoutId(prev, tabId)
    IN  IF closeTabSwitches(prev, tabId)
        THEN newTabs[nextIndexAfterClose(tabIndex, Len(newTabs))].id
        ELSE Null

closeTab(s, tabId) ==
    State(closeTabTabs(s.tabs, tabId),
          IF closeTabSetsActive(s.tabs, tabId)
          THEN closeTabActive(s.tabs, tabId) ELSE s.activeTabId)

\* ------------------------------------------------------------ closeAllTabs
closeAllTabs(s) == State(<<>>, Null)

\* ------------------------------------------------------------ closeOtherTabs
\* (variant for C7: the kept tab is returned as it is, isActive not set)
closeOtherTabsTabsAsIs(prev, tabId) ==
    LET i == IndexOfId(prev, tabId) IN
    IF i = 0 THEN prev ELSE <<prev[i]>>

\* The updater returns prev when tabId is not open; setActiveTabId(tabId) is
\* called in either case.
closeOtherTabsTabs(prev, tabId) ==
    LET i == IndexOfId(prev, tabId) IN
    IF i = 0 THEN prev ELSE <<[prev[i] EXCEPT !.isActive = TRUE]>>

closeOtherTabs(s, tabId) == State(closeOtherTabsTabs(s.tabs, tabId), tabId)

\* ------------------------------------------------------------ openTab
\* (variant for C1: the test for a pageId inverted, so that an open page is
\* never looked for)
existingTabInverted(list, tabData) ==
    IF tabData.type = "page" /\ tabData.pageId = NoPage
    THEN LET Match(tab) == tab.type = "page" /\ tab.pageId = tabData.pageId
         IN  findIndex([ix \in 1..Len(list) |-> Match(list[ix])])
    ELSE 0

\* (variant for C24: a descriptor without pageId matches a tab of its type)
existingTabByKind(list, tabData) ==
    LET Match(tab) == IF tabData.type = "page" /\ tabData.pageId # NoPage
                      THEN tab.type = "page" /\ tab.pageId = tabData.pageId
                      ELSE tab.type = tabData.type
    IN  findIndex([ix \in 1..Len(list) |-> Match(list[ix])])

\* tabs.find(tab => tab.type === 'page' && tab.content.pageId === pageId),
\* as an index; looked for only when tabData.type === 'page' and
\* tabData.content.pageId is truthy.  0 when there is none.
existingTab(list, tabData) ==
    IF tabData.type = "page" /\ tabData.pageId # NoPage
    THEN LET Match(tab) == tab.type = "page" /\ tab.pageId = tabData.pageId
         IN  findIndex([ix \in 1..Len(list) |-> Match(list[ix])])
    ELSE 0

\* tabs.reduce((oldest, current) =>
\*     current.lastAccessed < oldest.lastAccessed ? current : oldest),
\* as an index into the list.
RECURSIVE ReduceOldest(_, _, _)
ReduceOldest(list, oldest, i) ==
    IF i > Len(list) THEN oldest
    ELSE ReduceOldest(list,
                      IF list[i].lastAccessed < list[oldest].lastAccessed
                      THEN i ELSE oldest,
                      i + 1)

\* (variant for C5: <= in place of <, so the last of the oldest tabs wins)
RECURSIVE ReduceOldestLast(_, _, _)
ReduceOldestLast(list, oldest, i) ==
    IF i > Len(list) THEN oldest
    ELSE ReduceOldestLast(list,
                          IF list[i].lastAccessed <= list[oldest].lastAccessed
                          THEN i ELSE oldest,
                          i + 1)

oldestTabLast(list) == ReduceOldestLast(list, 1, 2)

oldestTab(list) == ReduceOldest(list, 1, 2)

\* (variant for C2: > in place of >=)
atMaxTabsOffByOne(list) == Len(list) > MAX_TABS

\* tabs.length >= MAX_TABS
atMaxTabs(list) == Len(list) >= MAX_TABS

\* { ...tabData, id: newTabId, isActive: true, lastAccessed: new Date() }
newTab(tabData, newTabId, t) ==
    [id |-> newTabId, title |-> tabData.title, type |-> tabData.type,
     pageId |-> tabData.pageId, hasUnsavedChanges |-> tabData.hasUnsavedChanges,
     isActive |-> TRUE, lastAccessed |-> t]

\* The tab list after the updaters openTab queued have run: closeTab's, when
\* the list was full, then [...prev.map(isActive: false), newTab].
openTabTabs(list, tabData, newTabId, t) ==
    LET afterEvict == IF atMaxTabs(list)
                      THEN closeTabTabs(list, list[oldestTab(list)].id)
                      ELSE list
        Off(tab)   == [tab EXCEPT !.isActive = FALSE]
    IN  Append([ix \in 1..Len(afterEvict) |-> Off(afterEvict[ix])],
               newTab(tabData, newTabId, t))

\* The recorded active id after openTab appended a tab.  closeTab's updater
\* calls setActiveTabId from inside the updater: React runs a queued updater
\* either at once, when it is the first update of the fiber (eager), or
\* while rendering, after the setActiveTabId(newTabId) of openTab was
\* queued; in the second case the id set by closeTab is the last one set.
openTabActive(list, tabData, newTabId, eager) ==
    IF /\ atMaxTabs(list)
       /\ closeTabSetsActive(list, list[oldestTab(list)].id)
       /\ ~eager
    THEN closeTabActive(list, list[oldestTab(list)].id)
    ELSE newTabId

\* (variant for C4: the freshly generated id is returned on both paths)
openTabReturnsNew(s, tabData, newTabId, t, eager) ==
    LET e == existingTab(s.tabs, tabData) IN
    IF e # 0
    THEN [state |-> switchToTab(s, s.tabs[e].id, t), ret |-> newTabId]
    ELSE [state |-> State(openTabTabs(s.tabs, tabData, newTabId, t),
                          openTabActive(s.tabs, tabData, newTabId, eager)),
          ret |-> newTabId]

\* openTab(tabData): [state, ret] -- ret is the id returned.
openTab(s, tabData, newTabId, t, eager) ==
    LET e == existingTab(s.tabs, tabData) IN
    IF e # 0
    THEN [state |-> switchToTab(s, s.tabs[e].id, t), ret |-> s.tabs[e].id]
    ELSE [state |-> State(openTabTabs(s.tabs, tabData, newTabId, t),
                          openTabActive(s.tabs, tabData, newTabId, eager)),
          ret |-> newTabId]

\* openTab called through a closure whose `tabs` is the list of the last
\* render (snap) while updates of the same event turn are already queued:
\* the existing-tab test, the capacity test and the oldest tab come from
\* snap, the queued updaters run on the list the earlier updates left (s).
\* The updater of closeTab runs while rendering, so the id it sets is the
\* last one set.
openTabFrom(snap, s, tabData, newTabId, t) ==
    LET e == existingTab(snap, tabData) IN
    IF e # 0
    THEN [state |-> switchToTab(s, snap[e].id, t), ret |-> snap[e].id]
    ELSE LET evicts     == atMaxTabs(snap)
             oldestId   == snap[oldestTab(snap)].id
             afterEvict == IF evicts THEN closeTabTabs(s.tabs, oldestId)
                           ELSE s.tabs
             Off(tab)   == [tab EXCEPT !.isActive = FALSE]
         IN  [state |->
                 State(Append([ix \in 1..Len(afterEvict) |-> Off(afterEvict[ix])],
                              newTab(tabData, newTabId, t)),
                       IF evicts /\ closeTabSetsActive(s.tabs, oldestId)
                       THEN closeTabActive(s.tabs, oldestId) ELSE newTabId),
              ret |-> newTabId]

\* ------------------------------------------------------------ title, dirty
updateTabTitle(s, tabId, title) ==
    LET Upd(tab) == IF tab.id = tabId THEN [tab EXCEPT !.title = title] ELSE tab
    IN  State([ix \in 1..Len(s.tabs) |-> Upd(s.tabs[ix])], s.activeTabId)

setTabUnsavedChanges(s, tabId, hasChanges) ==
    LET Upd(tab) == IF tab.id = tabId
                    THEN [tab EXCEPT !.hasUnsavedChanges = hasChanges] ELSE tab
    IN  State([ix \in 1..Len(s.tabs) |-> Upd(s.tabs[ix])], s.activeTabId)

\* ------------------------------------------------------------ navigation
\* (variant for C10: no wrap-around at the end of the list)
nextIndexNoWrap(currentIndex, len) ==
    IF currentIndex < len THEN currentIndex + 1 ELSE len

\* (currentIndex + 1) % tabs.length, 1-based; currentIndex is 0 here when no
\* tab is active (-1 in JS, whose next index is 0, the first tab).
nextIndex(currentIndex, len) == (currentIndex % len) + 1

\* currentIndex === 0 ? tabs.length - 1 : currentIndex - 1, 1-based: 0 when
\* no tab is active (JS index -2, which is no element).
prevIndex(currentIndex, len) ==
    IF currentIndex = 1 THEN len
    ELSE IF currentIndex = 0 THEN 0
    ELSE currentIndex - 1

switchToNextTab(s, t) ==
    IF Len(s.tabs) <= 1 THEN s
    ELSE switchToTab(s, s.tabs[nextIndex(IndexOfActive(s.tabs), Len(s.tabs))].id, t)

\* With no active tab tabs[prevIndex] is undefined and reading its id
\* throws a TypeError in the handler: no state update is queued.
switchToPreviousTab(s, t) ==
    IF Len(s.tabs) <= 1 THEN s
    ELSE LET p == prevIndex(IndexOfActive(s.tabs), Len(s.tabs)) IN
         IF p = 0 THEN s ELSE switchToTab(s, s.tabs[p].id, t)

\* ------------------------------------------------------------ reorderTabs
Min(a, b) == IF a < b THEN a ELSE b
Max(a, b) == IF a > b THEN a ELSE b

\* Array.prototype.splice's start: a negative start counts from the end,
\* and the result is clamped to 0..len.  0-based.
spliceStart(start, len) ==
    IF start < 0 THEN Max(len + start, 0) ELSE Min(start, len)

\* const [movedTab] = newTabs.splice(fromIndex, 1): undefined when the
\* start is at the end of the array and nothing is removed.
movedTab(prev, fromIndex) ==
    LET a == spliceStart(fromIndex, Len(prev)) IN
    IF a < Len(prev) THEN prev[a + 1] ELSE Undefined

\* newTabs after splice(fromIndex, 1)
afterRemove(prev, fromIndex) ==
    LET a == spliceStart(fromIndex, Len(prev)) IN
    IF a < Len(prev)
    THEN SubSeq(prev, 1, a) \o SubSeq(prev, a + 2, Len(prev))
    ELSE prev

\* newTabs.splice(toIndex, 0, movedTab)
insertAt(list, toIndex, tab) ==
    LET b == spliceStart(toIndex, Len(list)) IN
    SubSeq(list, 1, b) \o <<tab>> \o SubSeq(list, b + 1, Len(list))

reorderTabs(s, fromIndex, toIndex) ==
    State(insertAt(afterRemove(s.tabs, fromIndex), toIndex,
                   movedTab(s.tabs, fromIndex)),
          s.activeTabId)

\* ------------------------------------------------------------ persistence
\* Date.prototype.toISOString: the clock value written as seconds and
\* milliseconds ("...ss.sssZ"); new Date(iso) reads them back.
toISOString(t) == [sec |-> t \div 1000, ms |-> t % 1000]
parseDate(iso) == iso.sec * 1000 + iso.ms

\* saveTabs: JSON.stringify({tabs: tabs.map(lastAccessed -> ISO), activeTabId})
saveTabs(s) ==
    LET Ser(tab) == [tab EXCEPT !.lastAccessed = toISOString(@)] IN
    [saved |-> TRUE,
     tabs |-> [ix \in 1..Len(s.tabs) |-> Ser(s.tabs[ix])],
     activeTabId |-> s.activeTabId]

\* loadTabs: nothing happens when getItem returns null; otherwise the saved
\* list and active id replace the state, unfiltered.
loadTabs(s, store) ==
    LET De(tab) == [tab EXCEPT !.lastAccessed = parseDate(@)] IN
    IF store.saved
    THEN State([ix \in 1..Len(store.tabs) |-> De(store.tabs[ix])],
               store.activeTabId)
    ELSE s

\* The values of the store key that are not a session saveTabs wrote:
\* "syntax" is a text JSON.parse throws on; "shape" is a text that parses to
\* a value loadTabs throws a TypeError on (null, whose destructuring throws;
\* a value without a tabs array, whose savedTabs.map throws; a tabs array
\* that holds null, whose tab.lastAccessed throws).
Damages == {"syntax", "shape"}

\* (variant for C12: the catch block resets the session)
tryLoadTabsResets(s, store, dmg) ==
    IF dmg = "none" /\ ~store.saved
    THEN [state |-> s, outcome |-> "nothing"]
    ELSE IF dmg \in Damages
    THEN [state |-> State(<<>>, Null), outcome |-> "caught"]
    ELSE [state |-> loadTabs(s, store), outcome |-> "loaded"]

\* loadTabs with its try/catch: [state, outcome].  getItem returns null
\* ("nothing"); or JSON.parse, the destructuring or the map throws, before
\* setTabs is reached, and the catch block logs the error ("caught"); or
\* the session is set ("loaded").  No path leaves the function by an
\* exception (that outcome would be "raised").
tryLoadTabs(s, store, dmg) ==
    IF dmg = "none" /\ ~store.saved
    THEN [state |-> s, outcome |-> "nothing"]
    ELSE IF dmg \in Damages
    THEN [state |-> s, outcome |-> "caught"]
    ELSE [state |-> loadTabs(s, store), outcome |-> "loaded"]

\* ------------------------------------------------------- the durable store
\* The store behind invoke(): HierarchyStore and LinkGraph.  Ids are handed
\* out in order and never again; 0 (Null) stands for an absent optional id.
EmptyStore ==
    [notebooks |-> {}, sections |-> {}, pages |-> {}, links |-> {},
     notebookIds |-> 0, sectionIds |-> 0, pageIds |-> 0, linkIds |-> 0]

\* The result of a store call: a value, or a typed failure.
Ok(st, value) == [ok |-> TRUE, err |-> "", store |-> st, value |-> value]
Failure(st, err) == [ok |-> FALSE, err |-> err, store |-> st, value |-> Null]

\* The titles a notebook is created with and updated to.
Titles == {"Untitled", "Retitled"}

IdsOf(records) == {r.id : r \in records}

\* The record of records whose id is id.
Resolve(records, id) == CHOOSE r \in records : r.id = id

\* ids, and the ids of the pages below them at any depth.
RECURSIVE Subtree(_, _)
Subtree(pages, ids) ==
    LET more == ids \cup {q.id : q \in {r \in pages : r.parent_page_id \in ids}}
    IN  IF more = ids THEN ids ELSE Subtree(pages, more)

\* st without the pages gone and without every link from or to one of them.
WithoutPages(st, gone) ==
    [st EXCEPT !.pages = {q \in @ : q.id \notin gone},
               !.links = {l \in @ : l.source_page_id \notin gone
                                     /\ l.target_page_id \notin gone}]

create_notebook(st, title) ==
    LET id == st.notebookIds + 1 IN
    Ok([st EXCEPT !.notebooks = @ \cup {[id |-> id, title |-> title]},
                  !.notebookIds = id], id)

update_notebook(st, id, title) ==
    IF id \notin IdsOf(st.notebooks) THEN Failure(st, "NotFound")
    ELSE Ok([st EXCEPT !.notebooks =
                 {IF n.id = id THEN [n EXCEPT !.title = title] ELSE n : n \in @}],
            Null)

create_section(st, notebook_id) ==
    IF notebook_id \notin IdsOf(st.notebooks) THEN Failure(st, "NotFound")
    ELSE LET id == st.sectionIds + 1 IN
         Ok([st EXCEPT !.sections = @ \cup {[id |-> id, notebook_id |-> notebook_id]},
                       !.sectionIds = id], id)

\* (variant for C16: the parent is not checked against notebook_id)
create_pageAnyParent(st, notebook_id, section_id, parent_page_id) ==
    IF section_id # Null
       /\ (\/ section_id \notin IdsOf(st.sections)
           \/ Resolve(st.sections, section_id).notebook_id # notebook_id)
    THEN Failure(st, "InvalidHierarchy")
    ELSE IF notebook_id \notin IdsOf(st.notebooks) THEN Failure(st, "NotFound")
    ELSE LET id == st.pageIds + 1 IN
         Ok([st EXCEPT !.pages = @ \cup
                 {[id |-> id, notebook_id |-> notebook_id,
                   section_id |-> section_id, parent_page_id |-> parent_page_id]},
                       !.pageIds = id], id)

\* create_page: InvalidHierarchy when section_id or parent_page_id names an
\* entity that is not in notebook_id (the new page has a fresh id, so its
\* parent cannot be one of its descendants); NotFound when notebook_id
\* itself does not resolve.
create_page(st, notebook_id, section_id, parent_page_id) ==
    IF section_id # Null
       /\ (\/ section_id \notin IdsOf(st.sections)
           \/ Resolve(st.sections, section_id).notebook_id # notebook_id)
    THEN Failure(st, "InvalidHierarchy")
    ELSE IF parent_page_id # Null
            /\ (\/ parent_page_id \notin IdsOf(st.pages)
                \/ Resolve(st.pages, parent_page_id).notebook_id # notebook_id)
    THEN Failure(st, "InvalidHierarchy")
    ELSE IF notebook_id \notin IdsOf(st.notebooks) THEN Failure(st, "NotFound")
    ELSE LET id == st.pageIds + 1 IN
         Ok([st EXCEPT !.pages = @ \cup
                 {[id |-> id, notebook_id |-> notebook_id,
                   section_id |-> section_id, parent_page_id |-> parent_page_id]},
                       !.pageIds = id], id)

\* (variant for C17: the links of the deleted pages are kept)
delete_pageKeepsLinks(st, id) ==
    LET gone == Subtree(st.pages, {id}) IN
    Ok([st EXCEPT !.pages = {q \in @ : q.id \notin gone}], Null)

\* delete_page: the page, its descendants and every link from or to one of
\* them; an absent id is a success that changes nothing.
delete_page(st, id) ==
    Ok(WithoutPages(st, Subtree(st.pages, {id})), Null)

\* delete_section: the section; with cascade, the pages in it and their
\* subtrees too (what becomes of a deleted section's pages is not said, so
\* both are possible).
delete_section(st, id, cascade) ==
    LET inside == {q.id : q \in {r \in st.pages : r.section_id = id}}
        gone == IF cascade THEN Subtree(st.pages, inside) ELSE {}
    IN  Ok([WithoutPages(st, gone) EXCEPT !.sections = {x \in @ : x.id # id}],
           Null)

\* delete_notebook: the notebook, its sections, the pages in those sections
\* with their subtrees, and every link from or to a deleted page.
delete_notebook(st, id) ==
    LET secs == {x.id : x \in {y \in st.sections : y.notebook_id = id}}
        inside == {q.id : q \in {r \in st.pages : r.section_id \in secs}}
        gone == Subtree(st.pages, inside)
    IN  Ok([WithoutPages(st, gone) EXCEPT
                !.notebooks = {n \in @ : n.id # id},
                !.sections = {x \in @ : x.id \notin secs}],
           Null)

\* get_hierarchy: NotFound for an unresolved notebook, else its sections and
\* pages.
get_hierarchy(st, id) ==
    IF id \notin IdsOf(st.notebooks) THEN Failure(st, "NotFound")
    ELSE Ok(st, [sections |-> {x \in st.sections : x.notebook_id = id},
                 pages |-> {q \in st.pages : q.notebook_id = id}])

\* (variant for C20: only unresolved ids are rejected)
create_linkAllowsSelf(st, source, target) ==
    IF source \notin IdsOf(st.pages) \/ target \notin IdsOf(st.pages)
    THEN Failure(st, "InvalidHierarchy")
    ELSE LET id == st.linkIds + 1 IN
         Ok([st EXCEPT !.links = @ \cup
                 {[id |-> id, source_page_id |-> source, target_page_id |-> target]},
                       !.linkIds = id], id)

\* create_link: InvalidHierarchy for a self-link or an unresolved id; the
\* same (source, target) may be linked more than once.
create_link(st, source, target) ==
    IF source = target
       \/ source \notin IdsOf(st.pages) \/ target \notin IdsOf(st.pages)
    THEN Failure(st, "InvalidHierarchy")
    ELSE LET id == st.linkIds + 1 IN
         Ok([st EXCEPT !.links = @ \cup
                 {[id |-> id, source_page_id |-> source, target_page_id |-> target]},
                       !.linkIds = id], id)

\* get_pages(notebookId): the pages of the notebook.
get_pages(st, notebook_id) == {q \in st.pages : q.notebook_id = notebook_id}

get_outgoing(st, page_id) == {l \in st.links : l.source_page_id = page_id}

get_backlinks(st, page_id) == {l \in st.links : l.target_page_id = page_id}

\* --------------------------------------------------- the notebook provider
\* The useState cells of NotebookProvider; a selection is held by its id.
NewNotebookProvider ==
    [notebooks |-> <<>>, currentNotebook |-> Null, currentSection |-> Null,
     currentPage |-> Null, loading |-> FALSE, error |-> ""]

\* What a call of the provider leaves: its cells, and whether it threw.
Returned(c) == [nb |-> [c EXCEPT !.loading = FALSE, !.error = ""], raised |-> FALSE]

\* (variant for C15: the catch block also clears the notebook list)
ThrewClearsList(c, r) ==
    [nb |-> [c EXCEPT !.loading = FALSE, !.error = r.err, !.notebooks = <<>>],
     raised |-> TRUE]

\* catch (err) { setError(err); throw err } finally { setLoading(false) }
Threw(c, r) ==
    [nb |-> [c EXCEPT !.loading = FALSE, !.error = r.err], raised |-> TRUE]

\* list without the notebooks whose id is id.
FilterOut(list, id) ==
    LET Keep(n) == n.id # id IN SelectSeq(list, Keep)

\* r is the outcome of the invoke() the operation awaits.
createNotebook(c, title, r) ==
    IF r.ok
    THEN Returned([c EXCEPT !.notebooks = Append(@, [id |-> r.value, title |-> title])])
    ELSE Threw(c, r)

updateNotebook(c, id, title, r) ==
    IF r.ok
    THEN Returned([c EXCEPT !.notebooks =
             [ix \in 1..Len(@) |->
                 IF @[ix].id = id THEN [@[ix] EXCEPT !.title = title] ELSE @[ix]]])
    ELSE Threw(c, r)

deleteNotebook(c, id, r) ==
    IF r.ok
    THEN Returned([c EXCEPT !.notebooks = FilterOut(@, id),
                            !.currentNotebook = IF @ = id THEN Null ELSE @])
    ELSE Threw(c, r)

createSection(c, r) == IF r.ok THEN Returned(c) ELSE Threw(c, r)

deleteSection(c, id, r) ==
    IF r.ok
    THEN Returned([c EXCEPT !.currentSection = IF @ = id THEN Null ELSE @])
    ELSE Threw(c, r)

createPage(c, r) == IF r.ok THEN Returned(c) ELSE Threw(c, r)

deletePage(c, id, r) ==
    IF r.ok
    THEN Returned([c EXCEPT !.currentPage = IF @ = id THEN Null ELSE @])
    ELSE Threw(c, r)

\* The operations the value of the notebook context holds.
ProviderValue ==
    {"createNotebook", "getNotebooks", "getNotebook", "updateNotebook",
     "deleteNotebook", "createSection", "getSections", "updateSection",
     "deleteSection", "createPage", "getPages", "getPage", "updatePage",
     "deletePage", "setCurrentNotebook", "setCurrentSection", "setCurrentPage",
     "getNotebookHierarchy"}

\* ------------------------------------------------------- the page linking
\* The useState cells of PageLinking, pages held by their ids; no component
\* is mounted.
NoLinking == [currentPageId |-> Null, allPages |-> {}, backlinks |-> {}]

\* The cells of a PageLinking that was just mounted for the page.
NewLinking(pageId) == [currentPageId |-> pageId, allPages |-> {}, backlinks |-> {}]

\* loadData: the pages of all listed notebooks but the current page become
\* allPages; then getPageLinks, destructured from the context value, is
\* called.  When the value does not hold it, the call throws a TypeError,
\* the catch block reports it and setBacklinks is not reached.
loadData(l, listed, st) ==
    LET allPagesData == UNION {get_pages(st, listed[i].id) : i \in 1..Len(listed)}
        others == {q \in allPagesData : q.id # l.currentPageId}
        allLinks == UNION {get_outgoing(st, q.id) : q \in others}
        withPages == [l EXCEPT !.allPages = IdsOf(others)]
    IN  IF "getPageLinks" \notin ProviderValue
        THEN [cells |-> withPages, failed |-> TRUE]
        ELSE [cells |-> [withPages EXCEPT !.backlinks =
                            {k \in allLinks : k.target_page_id = l.currentPageId}],
              failed |-> FALSE]

\* ------------------------------------------------------------ the machine
\* The record of the last call: the operation, the tab id it was called
\* with (for openTab: the id it returned, and the pageId of its descriptor)
\* and the branch of the code it took.
Call(op, tabId, pageId, kind) ==
    [op |-> op, tabId |-> tabId, pageId |-> pageId, kind |-> kind]

\* The state a handler reads.  Every action is one event turn: each caller in
\* src/ calls one operation per event handler and React renders the result
\* of a turn before the next event is handled, so the tabs and activeTabId a
\* useCallback closure captured are those of the current state.
Cur == State(tabs, activeTabId)

\* Ids of the open tabs.
OpenIds == {tabs[i].id : i \in 1..Len(tabs)}

\* Ids generateTabId handed out to tabs that are closed by now.
ClosedIds == (1..(nextId - 1)) \ OpenIds

\* The tab ids the operations are called with: every open tab, and one id
\* that is no longer open (the oldest such id), as a context menu or another
\* stale reference may hold.
IssuedIds ==
    OpenIds \cup {id \in ClosedIds : \A other \in ClosedIds : id <= other}

\* Indices a caller may pass to reorderTabs, 0-based: every position of the
\* list, one below the first and one beyond the last.
IndexRange == (0 - 1)..Len(tabs)

\* The list holds no slot that is not a tab.  Once a slot holds undefined,
\* every consumer that reads a field of each tab throws (TabBar's
\* tabs.map, the updaters of closeTab and switchToTab); every action has
\* this guard, so the model follows a behaviour up to that state and no
\* further.
Alive == \A i \in 1..Len(tabs) : tabs[i].type # "undefined"

\* A tab whose title was changed or whose unsaved-changes flag is set.
Edited(tab) == tab.title \in NewTitles \/ tab.hasUnsavedChanges

\* Fewer than MaxEdited tabs other than tabId are edited.
MayEdit(tabId) ==
    /\ nextId - 1 <= MaxEditIds
    /\ ~storage.saved
    /\ Cardinality({i \in 1..Len(tabs) : Edited(tabs[i]) /\ tabs[i].id # tabId})
          < MaxEdited

\* Some open or saved tab is edited.
SomeEdited ==
    \/ \E i \in 1..Len(tabs) : Edited(tabs[i])
    \/ \E i \in 1..Len(storage.tabs) : Edited(storage.tabs[i])

\* May generateTabId hand out another id?
MayIssue ==
    /\ nextId <= MaxIds
    /\ storage.saved => nextId <= MaxSavedIds
    /\ SomeEdited => nextId <= MaxEditIds

Init ==
    /\ tabs = <<>>
    /\ activeTabId = Null
    /\ storage = NoSession
    /\ now = 0
    /\ nextId = 1
    /\ last = Call("init", Null, NoPage, "")
    /\ deleted = {}
    /\ deletedAtSave = {}
    /\ damage = "none"
    /\ timer = 0
    /\ staleFor = 0
    /\ pageContent = {}
    /\ fetching = {}
    /\ backend = EmptyStore
    /\ nb = NewNotebookProvider
    /\ linking = NoLinking
    /\ sync = NewSync
    /\ error = {}

\* The state cells are set.  openTab and findTabByPageId are useCallbacks
\* over [tabs] and the route effect of TabManager depends on them: when the
\* tab list changes, the effect is due again.
\* saveTabs is a useCallback over [tabs,
\* activeTabId] and the auto-save effect depends on [saveTabs]: when a cell
\* changes, the render makes a new saveTabs, the effect's cleanup calls
\* clearInterval and the effect calls setInterval again.
Set(s) ==
    /\ tabs' = s.tabs
    /\ activeTabId' = s.activeTabId
    /\ timer' = IF s = Cur THEN timer ELSE 0
    /\ sync' = [sync EXCEPT !.due = @ \/ s.tabs # tabs]

OpenTab(tabData, eager) ==
    LET r == openTab(Cur, tabData, nextId, now, eager)
        e == existingTab(tabs, tabData)
    IN  /\ Alive
        /\ e # 0 \/ MayIssue
        /\ Set(r.state)
        /\ nextId' = IF e # 0 THEN nextId ELSE nextId + 1
        /\ last' = Call("openTab", r.ret, tabData.pageId,
                        IF e # 0 THEN "existing"
                        ELSE IF atMaxTabs(tabs) THEN "evict" ELSE "append")
        /\ UNCHANGED <<storage, now, deleted, deletedAtSave, damage, staleFor, pageContent, fetching, backend, nb, linking, error>>

CloseTab(tabId) ==
    /\ Alive
    /\ Set(closeTab(Cur, tabId))
    /\ last' = Call("closeTab", tabId, NoPage,
                    IF IndexOfId(tabs, tabId) = 0 THEN "absent"
                    ELSE IF closeTabSwitches(tabs, tabId) THEN "switch"
                    ELSE IF Len(tabs) = 1 THEN "empty" ELSE "plain")
    /\ UNCHANGED <<storage, now, nextId, deleted, deletedAtSave, damage, staleFor, pageContent, fetching, backend, nb, linking, error>>

CloseAllTabs ==
    /\ Alive
    /\ Set(closeAllTabs(Cur))
    /\ last' = Call("closeAllTabs", Null, NoPage, "")
    /\ UNCHANGED <<storage, now, nextId, deleted, deletedAtSave, damage, staleFor, pageContent, fetching, backend, nb, linking, error>>

CloseOtherTabs(tabId) ==
    /\ Alive
    /\ Set(closeOtherTabs(Cur, tabId))
    /\ last' = Call("closeOtherTabs", tabId, NoPage,
                    IF IndexOfId(tabs, tabId) = 0 THEN "absent"
                    ELSE IF Len(tabs) = 1 THEN "only" ELSE "others")
    /\ UNCHANGED <<storage, now, nextId, deleted, deletedAtSave, damage, staleFor, pageContent, fetching, backend, nb, linking, error>>

SwitchToTab(tabId) ==
    /\ Alive
    /\ Set(switchToTab(Cur, tabId, now))
    /\ last' = Call("switchToTab", tabId, NoPage,
                    IF IndexOfId(tabs, tabId) = 0 THEN "absent" ELSE "open")
    /\ UNCHANGED <<storage, now, nextId, deleted, deletedAtSave, damage, staleFor, pageContent, fetching, backend, nb, linking, error>>

UpdateTabTitle(tabId, title) ==
    /\ Alive
    /\ MayEdit(tabId)
    /\ Set(updateTabTitle(Cur, tabId, title))
    /\ last' = Call("updateTabTitle", Null, NoPage, "")
    /\ UNCHANGED <<storage, now, nextId, deleted, deletedAtSave, damage, staleFor, pageContent, fetching, backend, nb, linking, error>>

SetTabUnsavedChanges(tabId, hasChanges) ==
    /\ Alive
    /\ MayEdit(tabId)
    /\ Set(setTabUnsavedChanges(Cur, tabId, hasChanges))
    /\ last' = Call("setTabUnsavedChanges", Null, NoPage, "")
    /\ UNCHANGED <<storage, now, nextId, deleted, deletedAtSave, damage, staleFor, pageContent, fetching, backend, nb, linking, error>>

SwitchToNextTab ==
    /\ Alive
    /\ Set(switchToNextTab(Cur, now))
    /\ last' = Call("switchToNextTab", Null, NoPage,
                    IF Len(tabs) <= 1 THEN "single" ELSE "move")
    /\ UNCHANGED <<storage, now, nextId, deleted, deletedAtSave, damage, staleFor, pageContent, fetching, backend, nb, linking, error>>

SwitchToPreviousTab ==
    /\ Alive
    /\ Set(switchToPreviousTab(Cur, now))
    /\ last' = Call("switchToPreviousTab", Null, NoPage,
                    IF Len(tabs) <= 1 THEN "single"
                    ELSE IF IndexOfActive(tabs) = 0 THEN "throw" ELSE "move")
    /\ UNCHANGED <<storage, now, nextId, deleted, deletedAtSave, damage, staleFor, pageContent, fetching, backend, nb, linking, error>>

ReorderTabs(fromIndex, toIndex) ==
    /\ Alive
    /\ Set(reorderTabs(Cur, fromIndex, toIndex))
    /\ last' = Call("reorderTabs", Null, NoPage,
                    IF spliceStart(fromIndex, Len(tabs)) < Len(tabs)
                    THEN "inside" ELSE "beyond")
    /\ UNCHANGED <<storage, now, nextId, deleted, deletedAtSave, damage, staleFor, pageContent, fetching, backend, nb, linking, error>>

SaveTabs ==
    /\ Alive
    /\ nextId - 1 <= MaxSavedIds
    /\ storage' = saveTabs(Cur)
    /\ last' = Call("saveTabs", Null, NoPage, "")
    /\ deletedAtSave' = deleted
    /\ damage' = "none"
    /\ UNCHANGED <<tabs, activeTabId, now, nextId, deleted, timer, staleFor, pageContent, fetching, backend, nb, linking, sync, error>>

\* The session differs from what the store holds.
Dirty == saveTabs(Cur) # storage

\* One unit of time (10 s) passes without an event; the interval is not due.
Elapse ==
    /\ Alive
    /\ timer < AUTO_SAVE_PERIOD
    /\ staleFor < MaxStale
    /\ timer' = timer + 1
    /\ staleFor' = IF Dirty THEN staleFor + 1 ELSE 0
    /\ last' = Call("elapse", Null, NoPage, "")
    /\ UNCHANGED <<tabs, activeTabId, storage, now, nextId, deleted,
                   deletedAtSave, damage, pageContent, fetching, backend, nb, linking, sync, error>>

\* The interval is due: it calls saveTabs and starts its next period.
AutoSave ==
    /\ Alive
    /\ timer = AUTO_SAVE_PERIOD
    /\ storage' = saveTabs(Cur)
    /\ deletedAtSave' = deleted
    /\ damage' = "none"
    /\ timer' = 0
    /\ staleFor' = 0
    /\ last' = Call("autoSave", Null, NoPage, "")
    /\ UNCHANGED <<tabs, activeTabId, now, nextId, deleted, pageContent, fetching, backend, nb, linking, sync, error>>

LoadTabs ==
    /\ Alive
    /\ Set(tryLoadTabs(Cur, storage, damage).state)
    /\ last' = Call("loadTabs", Null, NoPage,
                    tryLoadTabs(Cur, storage, damage).outcome)
    /\ UNCHANGED <<storage, now, nextId, deleted, deletedAtSave, damage, staleFor, pageContent, fetching, backend, nb, linking, error>>

\* The provider is mounted again (the window is reloaded): both cells take
\* their initial value and the mount effect calls loadTabs.
Mount ==
    /\ Alive
    /\ Set(tryLoadTabs(State(<<>>, Null), storage, damage).state)
    /\ last' = Call("mount", Null, NoPage,
                    tryLoadTabs(State(<<>>, Null), storage, damage).outcome)
    /\ UNCHANGED <<storage, now, nextId, deleted, deletedAtSave, damage, staleFor, pageContent, fetching, backend, nb, linking, error>>

\* The clock advances between two calls (or does not: two calls may read
\* the same millisecond).
Tick ==
    /\ Alive
    /\ now < MaxTime
    /\ now' = now + 1
    /\ UNCHANGED <<tabs, activeTabId, storage, nextId, last, deleted, deletedAtSave, damage, timer, staleFor, pageContent, fetching, backend, nb, linking, sync, error>>

\* Time passes between two operations.
Later ==
    /\ Alive
    /\ now < MaxClock
    /\ now' = now + 1
    /\ UNCHANGED <<tabs, activeTabId, storage, nextId, last, deleted,
                   deletedAtSave, damage, timer, staleFor, pageContent,
                   fetching, backend, nb, linking, sync, error>>

\* deletePage(id) of the notebook context, its durable-store call having
\* succeeded: the page is gone from the store.  Nothing in it, nor in its
\* caller (PageEditor.handleDelete), calls an operation of the tab context.
DeletePage(pageId) ==
    /\ Alive
    /\ pageId \notin deleted
    /\ deleted' = deleted \cup {pageId}
    /\ last' = Call("deletePage", Null, pageId, "")
    /\ UNCHANGED <<tabs, activeTabId, storage, now, nextId, deletedAtSave, damage, timer, staleFor, pageContent, fetching, backend, nb, linking, sync, error>>

\* Another writer of the store key (an earlier version of the program, the
\* user, another page of the origin) leaves a value that is no session.
CorruptStore(dmg) ==
    /\ Alive
    /\ damage # dmg
    /\ damage' = dmg
    /\ last' = Call("corruptStore", Null, NoPage, dmg)
    /\ UNCHANGED <<tabs, activeTabId, storage, now, nextId, deleted,
                   deletedAtSave, timer, staleFor, pageContent, fetching, backend, nb, linking, sync, error>>

\* getActiveTab(): the first tab whose isActive is true, as an index of the
\* list, or 0 (null).
getActiveTab(list) == IndexOfActive(list)

\* loading[pageId]: set when a getPage call for the page starts, cleared
\* when it settles.
loading == {f.pageId : f \in fetching}

\* getPage of the notebook context, up to its await: setLoading(true),
\* setError(null).
startCall(c) == [c EXCEPT !.loading = TRUE, !.error = ""]

\* getPage of the notebook context, after its await: setError(err) in the
\* catch block when invoke rejected, setLoading(false) in the finally block.
endCall(c, rejected) ==
    [c EXCEPT !.loading = FALSE,
              !.error = IF rejected THEN "PersistenceFailure" ELSE @]

\* .then(page => ...): the page is cached and the title of the tab the
\* effect ran for is set, whatever happened to that tab meanwhile.
applyPage(s, f, title) ==
    [state |-> updateTabTitle(s, f.tabId, title), cached |-> {f.pageId}]

\* The page-load effect of TabContent, after a render: the active tab is a
\* page whose content is neither cached nor loading, so getPage is called.
LoadPageEffect ==
    /\ Alive
    /\ getActiveTab(tabs) # 0
    /\ LET activeTab == tabs[getActiveTab(tabs)] IN
        /\ activeTab.type = "page"
        /\ activeTab.pageId # NoPage
        /\ activeTab.pageId \notin pageContent
        /\ activeTab.pageId \notin loading
        /\ fetching' = fetching \cup
              {[tabId |-> activeTab.id, pageId |-> activeTab.pageId]}
        /\ last' = Call("getPage", activeTab.id, activeTab.pageId, "")
    /\ nb' = startCall(nb)
    /\ UNCHANGED <<tabs, activeTabId, storage, now, nextId, deleted,
                   deletedAtSave, damage, timer, staleFor, pageContent, backend, linking, sync, error>>

\* getPage resolves with the page: last.kind tells whether the tab the call
\* was made for is still the active one.
FetchArrives(f, title) ==
    /\ Alive
    /\ f \in fetching
    /\ Set(applyPage(Cur, f, title).state)
    /\ pageContent' = pageContent \cup applyPage(Cur, f, title).cached
    /\ fetching' = fetching \ {f}
    /\ nb' = endCall(nb, FALSE)
    /\ last' = Call("fetchArrives", f.tabId, f.pageId,
                    IF getActiveTab(tabs) # 0 /\ tabs[getActiveTab(tabs)].id = f.tabId
                    THEN "current" ELSE "superseded")
    /\ UNCHANGED <<storage, now, nextId, deleted, deletedAtSave, damage,
                   staleFor, backend, linking, error>>

\* getPage resolves with null, or rejects: the error is recorded for the
\* page, and the tab list stays as it is.
FetchFails(f, rejected) ==
    /\ Alive
    /\ f \in fetching
    /\ fetching' = fetching \ {f}
    /\ nb' = endCall(nb, rejected)
    /\ error' = error \cup {f.pageId}
    /\ last' = Call("fetchFails", f.tabId, f.pageId,
                    IF rejected THEN "rejected" ELSE "null")
    /\ UNCHANGED <<tabs, activeTabId, storage, now, nextId, deleted,
                   deletedAtSave, damage, timer, staleFor, pageContent, backend, linking, sync>>

\* The Retry button of the error view, shown for the page of the active
\* tab when it is not loading and has an error: the error is cleared and
\* getPage is called, with no look at the cache.
Retry ==
    /\ Alive
    /\ getActiveTab(tabs) # 0
    /\ LET activeTab == tabs[getActiveTab(tabs)] IN
        /\ activeTab.type = "page"
        /\ activeTab.pageId \notin loading
        /\ activeTab.pageId \in error
        /\ error' = error \ {activeTab.pageId}
        /\ fetching' = fetching \cup
              {[tabId |-> activeTab.id, pageId |-> activeTab.pageId]}
        /\ last' = Call("retry", activeTab.id, activeTab.pageId, "")
    /\ nb' = startCall(nb)
    /\ UNCHANGED <<tabs, activeTabId, storage, now, nextId, deleted,
                   deletedAtSave, damage, timer, staleFor, pageContent,
                   backend, linking, sync>>

\* The outcome of invoke(): the store call fails as a whole (the store is
\* as before), or the store answers.
Invoke(fails, answer) ==
    IF fails THEN Failure(backend, "PersistenceFailure") ELSE answer

\* What a call of the provider did.
Done(op, result) ==
    Call(op, Null, NoPage, IF result.raised THEN "raised" ELSE "returned")

StoreOnly == <<tabs, activeTabId, storage, now, nextId, deleted, deletedAtSave,
               damage, timer, staleFor, pageContent, fetching, linking, sync, error>>

CreateNotebook(title, fails) ==
    LET r == Invoke(fails, create_notebook(backend, title)) IN
    /\ backend.notebookIds < MaxNotebooks
    /\ backend' = r.store
    /\ nb' = createNotebook(nb, title, r).nb
    /\ last' = Done("createNotebook", createNotebook(nb, title, r))
    /\ UNCHANGED StoreOnly

UpdateNotebook(id, title, fails) ==
    LET r == Invoke(fails, update_notebook(backend, id, title)) IN
    /\ backend' = r.store
    /\ nb' = updateNotebook(nb, id, title, r).nb
    /\ last' = Done("updateNotebook", updateNotebook(nb, id, title, r))
    /\ UNCHANGED StoreOnly

DeleteNotebook(id, fails) ==
    LET r == Invoke(fails, delete_notebook(backend, id)) IN
    /\ backend' = r.store
    /\ nb' = deleteNotebook(nb, id, r).nb
    /\ last' = Done("deleteNotebook", deleteNotebook(nb, id, r))
    /\ UNCHANGED StoreOnly

CreateSection(notebookId, fails) ==
    LET r == Invoke(fails, create_section(backend, notebookId)) IN
    /\ backend.sectionIds < MaxSections
    /\ backend' = r.store
    /\ nb' = createSection(nb, r).nb
    /\ last' = Done("createSection", createSection(nb, r))
    /\ UNCHANGED StoreOnly

DeleteSection(id, cascade, fails) ==
    LET r == Invoke(fails, delete_section(backend, id, cascade)) IN
    /\ backend' = r.store
    /\ nb' = deleteSection(nb, id, r).nb
    /\ last' = Done("deleteSection", deleteSection(nb, id, r))
    /\ UNCHANGED StoreOnly

\* handleNewPage: the ids are those of a section or a page the sidebar
\* shows, which the store may no longer hold.
CreatePage(notebookId, sectionId, parentPageId, fails) ==
    LET r == Invoke(fails, create_page(backend, notebookId, sectionId, parentPageId)) IN
    /\ backend.pageIds < MaxStorePages
    /\ backend' = r.store
    /\ nb' = createPage(nb, r).nb
    /\ last' = Done("createPage", createPage(nb, r))
    /\ UNCHANGED StoreOnly

\* deletePage(id) with the store and the provider's cells.
DeleteStoredPage(id, fails) ==
    LET r == Invoke(fails, delete_page(backend, id)) IN
    /\ backend' = r.store
    /\ nb' = deletePage(nb, id, r).nb
    /\ last' = Done("deletePage", deletePage(nb, id, r))
    /\ UNCHANGED StoreOnly

\* setCurrentNotebook / setCurrentSection / setCurrentPage, called by the
\* sidebar with an entry it shows.
SetCurrent(cell, id) ==
    /\ nb[cell] # id
    /\ nb' = [nb EXCEPT ![cell] = id]
    /\ last' = Call("setCurrent", Null, NoPage, cell)
    /\ UNCHANGED <<backend>>
    /\ UNCHANGED StoreOnly

\* A page id where a tab id is expected: generateTabId makes ids of the form
\* tab_<time>_<random>, the store makes page ids, so it is the id of no tab.
PageIdAsTabId(pageId) == 0 - 1

\* The title effect of the PageEditor shown for the active tab: the title in
\* the editor has become a non-empty title other than the page's, and the
\* effect calls updateTabTitle(pageId, title).
EditorTitleEffect(title) ==
    /\ Alive
    /\ getActiveTab(tabs) # 0
    /\ LET activeTab == tabs[getActiveTab(tabs)] IN
        /\ activeTab.type = "page"
        /\ Set(updateTabTitle(Cur, PageIdAsTabId(activeTab.pageId), title))
        /\ last' = Call("titleEffect", activeTab.id, activeTab.pageId, title)
    /\ UNCHANGED <<storage, now, nextId, deleted, deletedAtSave, damage,
                   staleFor, pageContent, fetching, backend, nb, linking, error>>

\* Two openTab calls in one event turn: both run in the closure of the same
\* render, so the second sees the tab list the first one saw.
OpenTwoTabs(first, second, eager) ==
    LET r1  == openTab(Cur, first, nextId, now, eager)
        e1  == existingTab(tabs, first)
        id2 == IF e1 # 0 THEN nextId ELSE nextId + 1
        r2  == openTabFrom(tabs, r1.state, second, id2, now)
        e2  == existingTab(tabs, second)
    IN  /\ Alive
        /\ MayIssue
        /\ id2 <= MaxIds
        /\ Set(r2.state)
        /\ nextId' = IF e2 # 0 THEN id2 ELSE id2 + 1
        /\ last' = Call("openTwo", r2.ret, second.pageId,
                        IF e2 # 0 THEN "existing"
                        ELSE IF atMaxTabs(tabs) THEN "evict" ELSE "append")
        /\ UNCHANGED <<storage, now, deleted, deletedAtSave, damage,
                       staleFor, pageContent, fetching, backend, nb, linking, error>>

\* navigate(path): the pathname changes, which is a dependency of the
\* route effect.
Navigate(path) ==
    /\ Alive
    /\ path # sync.route
    /\ sync' = [route |-> path, due |-> TRUE]
    /\ last' = Call("navigate", Null, NoPage, path)
    /\ UNCHANGED <<tabs, activeTabId, storage, now, nextId, deleted,
                   deletedAtSave, damage, timer, staleFor, pageContent,
                   fetching, backend, nb, linking, error>>

\* generateTabId in a session that runs without end: an id no open tab
\* has.  The session keeps no reference to a closed tab, so the id of a
\* closed tab stands for a fresh one.
UnusedId == CHOOSE id \in 1..(MAX_TABS + 1) : id \notin OpenIds

\* The route effect of TabManager runs: on a fixed route it calls openTab
\* with the descriptor of the route, on a route it has no branch for it
\* does nothing.  (The page routes need currentPage and are left out.)
RouteEffect(eager) ==
    /\ Alive
    /\ sync.due
    /\ IF sync.route \in FixedRoutes
       THEN LET r == openTab(Cur, RouteDescriptor(sync.route), UnusedId, now,
                             eager)
            IN  /\ tabs' = r.state.tabs
                /\ activeTabId' = r.state.activeTabId
                /\ timer' = 0
                /\ sync' = [sync EXCEPT !.due = (r.state.tabs # tabs)]
                /\ nextId' = Max(nextId, UnusedId + 1)
                /\ last' = Call("routeEffect", r.ret, NoPage,
                                IF atMaxTabs(tabs) THEN "evict" ELSE "append")
       ELSE /\ sync' = [sync EXCEPT !.due = FALSE]
            /\ last' = Call("routeEffect", Null, NoPage, "nothing")
            /\ UNCHANGED <<tabs, activeTabId, timer, nextId>>
    /\ UNCHANGED <<storage, now, deleted, deletedAtSave, damage, staleFor,
                   pageContent, fetching, backend, nb, linking, error>>

LinkingOnly == <<tabs, activeTabId, storage, now, nextId, deleted,
                 deletedAtSave, damage, timer, staleFor, pageContent, fetching,
                 backend, nb, sync, error>>

\* The effect of PageLinking runs loadData when notebooks are listed.
RunLoadData(l) ==
    /\ Len(nb.notebooks) > 0
    /\ linking' = loadData(l, nb.notebooks, backend).cells
    /\ last' = Call("loadData", Null, NoPage,
                    IF loadData(l, nb.notebooks, backend).failed
                    THEN "failed" ELSE "loaded")
    /\ UNCHANGED LinkingOnly

\* PageEditor, keyed by the page id, mounts a PageLinking for the page of a
\* tab: a page that was created, and may be deleted by now.
MountLinking(pageId) ==
    /\ pageId <= backend.pageIds
    /\ linking.currentPageId # pageId
    /\ RunLoadData(NewLinking(pageId))

\* The effect runs again: the notebook list or getPages has changed.
ReloadData ==
    /\ linking.currentPageId # Null
    /\ loadData(linking, nb.notebooks, backend).cells # linking
    /\ RunLoadData(linking)

\* handleCreateLink with a page of the dialog, which lists allPages:
\* createPageLink, destructured from the context value, is called.  When
\* the value does not hold it, the call throws a TypeError and the catch
\* block reports it.
HandleCreateLink(target) ==
    LET r == create_link(backend, linking.currentPageId, target)
        provided == "createPageLink" \in ProviderValue
    IN  /\ target \in linking.allPages
        /\ backend.linkIds < MaxLinks
        /\ backend' = IF provided THEN r.store ELSE backend
        /\ last' = Call("handleCreateLink", Null, NoPage,
                        IF provided /\ r.ok THEN "created" ELSE "failed")
        /\ UNCHANGED <<tabs, activeTabId, storage, now, nextId, deleted,
                       deletedAtSave, damage, timer, staleFor, pageContent,
                       fetching, nb, linking, sync, error>>

Next ==
    \/ \E d \in Descriptors, eager \in BOOLEAN : OpenTab(d, eager)
    \/ \E id \in IssuedIds : CloseTab(id)
    \/ CloseAllTabs
    \/ \E id \in IssuedIds : CloseOtherTabs(id)
    \/ \E id \in IssuedIds : SwitchToTab(id)
    \/ \E id \in IssuedIds, title \in NewTitles : UpdateTabTitle(id, title)
    \/ \E id \in IssuedIds, b \in BOOLEAN : SetTabUnsavedChanges(id, b)
    \/ SwitchToNextTab
    \/ SwitchToPreviousTab
    \/ \E f \in IndexRange, t \in IndexRange : ReorderTabs(f, t)
    \/ SaveTabs
    \/ LoadTabs
    \/ Mount
    \/ Tick

Spec == Init /\ [][Next]_vars

\* The session without the store and without edits of title and flag: the
\* operations that open, close, activate and move tabs.
NextSession ==
    \/ \E d \in Descriptors, eager \in BOOLEAN : OpenTab(d, eager)
    \/ \E id \in IssuedIds : CloseTab(id)
    \/ CloseAllTabs
    \/ \E id \in IssuedIds : CloseOtherTabs(id)
    \/ \E id \in IssuedIds : SwitchToTab(id)
    \/ SwitchToNextTab
    \/ SwitchToPreviousTab
    \/ \E f \in IndexRange, t \in IndexRange : ReorderTabs(f, t)
    \/ Mount
    \/ Tick

SpecSession == Init /\ [][NextSession]_vars

\* The session with its store and the deletion of pages: tabs are opened,
\* activated and closed, the session is saved and loaded, pages are deleted.
NextRestore ==
    \/ \E d \in Descriptors, eager \in BOOLEAN : OpenTab(d, eager)
    \/ \E id \in IssuedIds : CloseTab(id)
    \/ \E id \in IssuedIds : SwitchToTab(id)
    \/ SaveTabs
    \/ LoadTabs
    \/ Mount
    \/ \E p \in PageIds : DeletePage(p)
    \/ \E dmg \in Damages : CorruptStore(dmg)
    \/ Tick

SpecRestore == Init /\ [][NextRestore]_vars

\* The session with its auto-save interval: the operations that change the
\* tab list or the active tab, and the passing of time.
NextAutosave ==
    \/ \E d \in Descriptors, eager \in BOOLEAN : OpenTab(d, eager)
    \/ \E id \in IssuedIds : SwitchToTab(id)
    \/ Elapse
    \/ AutoSave

SpecAutosave == Init /\ [][NextAutosave]_vars

\* The session with the page loads of TabContent.
NextFetch ==
    \/ \E d \in Descriptors, eager \in BOOLEAN : OpenTab(d, eager)
    \/ \E id \in IssuedIds : CloseTab(id)
    \/ \E id \in IssuedIds : SwitchToTab(id)
    \/ LoadPageEffect
    \/ \E f \in fetching, title \in NewTitles : FetchArrives(f, title)
    \/ \E f \in fetching : FetchFails(f, FALSE)

SpecFetch == Init /\ [][NextFetch]_vars

\* The session with the page editor of the active tab.
NextEditor ==
    \/ \E d \in Descriptors, eager \in BOOLEAN : OpenTab(d, eager)
    \/ \E id \in IssuedIds : CloseTab(id)
    \/ \E id \in IssuedIds : SwitchToTab(id)
    \/ \E title \in NewTitles : EditorTitleEffect(title)

SpecEditor == Init /\ [][NextEditor]_vars

\* The session with event handlers that open two tabs in one turn.
NextTurn ==
    \/ \E d \in Descriptors, eager \in BOOLEAN : OpenTab(d, eager)
    \/ \E id \in IssuedIds : CloseTab(id)
    \/ \E id \in IssuedIds : SwitchToTab(id)
    \/ \E first, second \in Descriptors, eager \in BOOLEAN :
           OpenTwoTabs(first, second, eager)

SpecTurn == Init /\ [][NextTurn]_vars

\* A tab of the list is bound to the page.
BoundTo(pageId) ==
    \E i \in 1..Len(tabs) : tabs[i].type = "page" /\ tabs[i].pageId = pageId

\* The session with page deletion from the editor of the active tab
\* (handleDelete).  The steps the program takes by itself are those of the
\* auto-save interval: time passes and the interval fires whenever it is
\* due (setInterval), which the fairness conditions state.  Opening, closing
\* and deleting are the user's and may never happen; a deleted page is not
\* offered for opening again.
NextDelete ==
    \/ \E d \in Descriptors, eager \in BOOLEAN :
           /\ nextId <= MaxDeleteIds
           /\ d.pageId \notin deleted
           /\ OpenTab(d, eager)
    \/ \E id \in IssuedIds : CloseTab(id)
    \/ \E p \in PageIds :
           /\ getActiveTab(tabs) # 0
           /\ tabs[getActiveTab(tabs)].type = "page"
           /\ tabs[getActiveTab(tabs)].pageId = p
           /\ DeletePage(p)
    \/ Elapse
    \/ AutoSave

SpecDelete ==
    Init /\ [][NextDelete]_vars /\ WF_vars(Elapse) /\ WF_vars(AutoSave)

\* The session with the route synchronisation of TabManager.  React runs
\* an effect whose dependencies changed after every commit, which the
\* fairness condition states; navigating, the New Tab button (handleNewTab:
\* a Dashboard tab), closing and switching are the user's.
NextRoute ==
    \/ \E path \in Routes : Navigate(path)
    \/ \E eager \in BOOLEAN : RouteEffect(eager)
    \/ \E eager \in BOOLEAN : OpenTab(RouteDescriptor("/"), eager)
    \/ \E id \in OpenIds : CloseTab(id)
    \/ \E id \in OpenIds : SwitchToTab(id)

SpecRoute ==
    Init /\ [][NextRoute]_vars /\ WF_vars(\E eager \in BOOLEAN : RouteEffect(eager))

\* The session with the content loader of TabContent.  React runs the
\* page-load effect after every commit that changed its dependencies, and
\* a getPage call settles; the fairness conditions state both.  Opening,
\* switching and Retry are the user's.
NextLoader ==
    \/ \E d \in Descriptors, eager \in BOOLEAN : OpenTab(d, eager)
    \/ \E id \in IssuedIds : SwitchToTab(id)
    \/ LoadPageEffect
    \/ \E f \in fetching, title \in NewTitles : FetchArrives(f, title)
    \/ \E f \in fetching : FetchFails(f, FALSE)
    \/ Retry

SpecLoader ==
    /\ Init /\ [][NextLoader]_vars
    /\ WF_vars(LoadPageEffect)
    /\ WF_vars(\/ \E f \in fetching, title \in NewTitles : FetchArrives(f, title)
               \/ \E f \in fetching : FetchFails(f, FALSE))

\* Every tab was stamped before the present clock reading: the next
\* new Date() is later than every lastAccessed.
Fresh == \A i \in 1..Len(tabs) : tabs[i].lastAccessed < now

\* The session under strictly increasing timestamps: an operation that
\* reads the clock runs only after time has passed since the last one.
NextClock ==
    \/ Later
    \/ Fresh /\ \E d \in Descriptors, eager \in BOOLEAN : OpenTab(d, eager)
    \/ \E id \in IssuedIds : CloseTab(id)
    \/ Fresh /\ \E id \in IssuedIds : SwitchToTab(id)

SpecClock == Init /\ [][NextClock]_vars

\* The notebook context under overlapping calls: the getPage calls that
\* TabContent starts for the active tab, each of which sets the loading
\* flag of the context when it starts and clears it when it settles.
NextLoading ==
    \/ \E d \in Descriptors, eager \in BOOLEAN : OpenTab(d, eager)
    \/ \E id \in IssuedIds : SwitchToTab(id)
    \/ LoadPageEffect
    \/ \E f \in fetching, title \in NewTitles : FetchArrives(f, title)
    \/ \E f \in fetching, rejected \in BOOLEAN : FetchFails(f, rejected)

SpecLoading == Init /\ [][NextLoading]_vars

NotebookRange == 1..MaxNotebooks
SectionRange == 1..MaxSections
PageRange == 1..MaxStorePages

\* The notebook provider over the durable store: notebooks, sections and
\* top-level pages are created, updated, selected and deleted.
NextNotebook ==
    \/ \E fails \in BOOLEAN : CreateNotebook("Untitled", fails)
    \/ \E id \in NotebookRange, fails \in BOOLEAN :
          UpdateNotebook(id, "Retitled", fails)
    \/ \E id \in NotebookRange, fails \in BOOLEAN : DeleteNotebook(id, fails)
    \/ \E n \in NotebookRange, fails \in BOOLEAN : CreateSection(n, fails)
    \/ \E id \in SectionRange, cascade \in BOOLEAN, fails \in BOOLEAN :
          DeleteSection(id, cascade, fails)
    \/ \E n \in NotebookRange, s \in {Null} \cup SectionRange, fails \in BOOLEAN :
          backend.pageIds < MaxListedPages /\ CreatePage(n, s, Null, fails)
    \/ \E id \in PageRange, fails \in BOOLEAN : DeleteStoredPage(id, fails)
    \/ \E id \in {Null} \cup IdsOf(backend.notebooks) :
          SetCurrent("currentNotebook", id)
    \/ \E id \in IdsOf(backend.sections) : SetCurrent("currentSection", id)
    \/ \E id \in IdsOf(backend.pages) : SetCurrent("currentPage", id)

SpecNotebook == Init /\ [][NextNotebook]_vars

\* Another client of the store (the create_link command has no caller that
\* reaches it in src/) links two pages.
CreateLink(source, target) ==
    LET r == create_link(backend, source, target) IN
    /\ backend.linkIds < MaxLinks
    /\ backend' = r.store
    /\ last' = Call("create_link", Null, NoPage, IF r.ok THEN "ok" ELSE r.err)
    /\ UNCHANGED <<nb>>
    /\ UNCHANGED StoreOnly

\* The durable store under the calls of the provider and of create_link,
\* every store call being answered.
NextStore ==
    \/ CreateNotebook("Untitled", FALSE)
    \/ \E id \in NotebookRange : DeleteNotebook(id, FALSE)
    \/ \E n \in NotebookRange : CreateSection(n, FALSE)
    \/ \E id \in SectionRange, cascade \in BOOLEAN :
          DeleteSection(id, cascade, FALSE)
    \/ \E n \in NotebookRange, s \in {Null} \cup SectionRange,
          p \in {Null} \cup PageRange : CreatePage(n, s, p, FALSE)
    \/ \E id \in PageRange : DeleteStoredPage(id, FALSE)
    \/ \E source \in PageRange, target \in PageRange : CreateLink(source, target)

SpecStore == Init /\ [][NextStore]_vars

\* The page linking over the store: notebooks, pages and links are created,
\* pages deleted, and a PageLinking is mounted for a page.
NextLinking ==
    \/ CreateNotebook("Untitled", FALSE)
    \/ \E n \in NotebookRange : CreatePage(n, Null, Null, FALSE)
    \/ \E id \in PageRange : DeleteStoredPage(id, FALSE)
    \/ \E source \in PageRange, target \in PageRange : CreateLink(source, target)
    \/ \E pageId \in PageRange : MountLinking(pageId)
    \/ ReloadData
    \/ \E target \in PageRange : HandleCreateLink(target)

SpecLinking == Init /\ [][NextLinking]_vars

\* ------------------------------------------------------------ properties
IsTab(tab) == tab.type # "undefined"

\* The open tabs: the slots of the list that hold a tab.
OpenTabs == SelectSeq(tabs, IsTab)

\* The number of open tabs whose isActive is true.
ActiveCount == Cardinality({i \in 1..Len(OpenTabs) : OpenTabs[i].isActive})

\* C1: in every reachable state at most one open tab of type page is bound
\* to any given pageId.
C1_OneTabPerPage ==
    \A i, j \in 1..Len(OpenTabs) :
        (/\ i # j
         /\ OpenTabs[i].type = "page"
         /\ OpenTabs[j].type = "page"
         /\ OpenTabs[i].pageId # NoPage)
        => OpenTabs[i].pageId # OpenTabs[j].pageId

\* C1 witness: openTab was called for a page that was already open, with
\* another tab open beside it, and found the existing tab.
C1_Witness ==
    /\ last.op = "openTab"
    /\ last.kind = "existing"
    /\ Len(tabs) >= 2
    /\ \E i \in 1..Len(tabs) : tabs[i].id = last.tabId /\ tabs[i].pageId = last.pageId

C3_ExactlyOneActive ==
    IF Len(OpenTabs) = 0 THEN ActiveCount = 0 ELSE ActiveCount = 1

\* A step of the operation op: the call is recorded and the clock, which no
\* operation advances, is unchanged.
Did(op) == last'.op = op /\ now' = now

\* seq without its i-th element.
RemoveAt(seq, i) == SubSeq(seq, 1, i - 1) \o SubSeq(seq, i + 1, Len(seq))

\* tab with its isActive set to b.
WithActive(tab, b) == [tab EXCEPT !.isActive = b]

\* C4: openTab with a pageId that is already bound to an open tab returns
\* the id of that tab, creates no tab (count and order unchanged), makes that
\* tab the only active one and sets its lastAccessed to the current time.
C4_OpenExistingReuses ==
    [][(Did("openTab") /\ last'.kind = "existing") =>
        LET ret == last'.tabId IN
        /\ \E i \in 1..Len(tabs) :
              /\ tabs[i].id = ret
              /\ tabs[i].type = "page"
              /\ tabs[i].pageId = last'.pageId
        /\ nextId' = nextId
        /\ Len(tabs') = Len(tabs)
        /\ \A i \in 1..Len(tabs) :
              /\ tabs'[i].id = tabs[i].id
              /\ tabs'[i].isActive <=> (tabs[i].id = ret)
              /\ tabs[i].id = ret => tabs'[i].lastAccessed = now
    ]_vars

\* C4 witness: a page open in a tab that is not the last, opened at time 0,
\* was opened again at time 1 beside a tab still at time 0.
C4_Witness ==
    /\ last.op = "openTab"
    /\ last.kind = "existing"
    /\ Len(tabs) >= 2
    /\ now = 1
    /\ \E i \in 1..(Len(tabs) - 1) :
          /\ tabs[i].id = last.tabId
          /\ tabs[i].isActive
          /\ tabs[i].lastAccessed = 1
    /\ \E j \in 1..Len(tabs) : tabs[j].lastAccessed = 0

\* What C5 says of every eviction but the tie-break: exactly one tab, v, is
\* removed, none is older than v, every other tab is kept in its relative
\* order, and the new tab is appended at the end and is the only active tab.
EvictsOldest(v) ==
    LET i == IndexOfId(tabs, v) IN
    /\ i # 0
    /\ \A j \in 1..Len(tabs) : tabs[i].lastAccessed <= tabs[j].lastAccessed
    /\ Len(tabs') = Len(tabs)
    /\ \A j \in 1..(Len(tabs) - 1) :
          tabs'[j] = WithActive(RemoveAt(tabs, i)[j], FALSE)
    /\ tabs'[Len(tabs')].id = last'.tabId
    /\ tabs'[Len(tabs')].id = nextId
    /\ tabs'[Len(tabs')].isActive
    /\ tabs'[Len(tabs')].lastAccessed = now

\* C5 as stated: on a full list openTab removes the tab with the smallest
\* lastAccessed, the earliest-inserted one among ties (ids are handed out in
\* insertion order), also after the list was reordered.
C5_EvictsEarliestInserted ==
    [][(Did("openTab") /\ last'.kind = "evict") =>
        \E v \in OpenIds :
            /\ EvictsOldest(v)
            /\ \A j \in 1..Len(tabs) :
                  tabs[j].lastAccessed = tabs[IndexOfId(tabs, v)].lastAccessed
                  => v <= tabs[j].id
    ]_vars

\* C5 as amended: among ties the tab that comes first in the current list
\* order is removed.
C5_EvictsFirstInList ==
    [][(Did("openTab") /\ last'.kind = "evict") =>
        \E v \in OpenIds :
            /\ EvictsOldest(v)
            /\ \A j \in 1..Len(tabs) :
                  tabs[j].lastAccessed = tabs[IndexOfId(tabs, v)].lastAccessed
                  => IndexOfId(tabs, v) <= j
    ]_vars

\* C5 witness: an eviction among tabs that all have the same lastAccessed,
\* after a reorder: the first tab ever opened has survived it.
C5_Witness ==
    /\ last.op = "openTab"
    /\ last.kind = "evict"
    /\ Len(tabs) = MAX_TABS
    /\ \A i \in 1..Len(tabs) : tabs[i].lastAccessed = 0
    /\ \E i \in 1..Len(tabs) : tabs[i].id = 1

\* C6: closeTab of an open tab removes exactly that tab and keeps the order
\* of the others; if it was active and others remain, the tab now at the
\* same list index becomes active (the predecessor if the closed tab was
\* last); if it was not active the active tab is unchanged; if no tab
\* remains none is active; closeTab of an id that is not open changes
\* nothing.
C6_CloseTab ==
    [][Did("closeTab") =>
        LET i    == IndexOfId(tabs, last'.tabId)
            rest == RemoveAt(tabs, i)
            k    == IF i <= Len(tabs) - 1 THEN i ELSE i - 1
        IN  IF i = 0
            THEN tabs' = tabs /\ activeTabId' = activeTabId
            ELSE /\ Len(tabs') = Len(tabs) - 1
                 /\ \A j \in 1..Len(rest) :
                       tabs'[j] = WithActive(rest[j], tabs'[j].isActive)
                 /\ IF Len(rest) = 0
                    THEN activeTabId' = Null
                    ELSE IF tabs[i].isActive
                    THEN /\ tabs'[k].isActive
                         /\ activeTabId' = tabs'[k].id
                         /\ \A j \in 1..Len(rest) :
                               j # k => tabs'[j].isActive = rest[j].isActive
                    ELSE /\ \A j \in 1..Len(rest) :
                               tabs'[j].isActive = rest[j].isActive
                         /\ activeTabId' = activeTabId
    ]_vars

\* C6 witness: the active tab was closed while two others were open, and the
\* second of the two tabs left is the active one.
C6_Witness ==
    /\ last.op = "closeTab"
    /\ last.kind = "switch"
    /\ Len(tabs) = 2
    /\ tabs[2].isActive
    /\ ~tabs[1].isActive

\* C7: closeOtherTabs of an open tab leaves a list that holds exactly that
\* tab, which is active and is the recorded active id; closeAllTabs leaves
\* the list empty with no active tab.
C7_CloseOthersAndAll ==
    [][/\ (Did("closeOtherTabs") /\ last'.kind # "absent") =>
            LET i == IndexOfId(tabs, last'.tabId) IN
            /\ tabs' = <<WithActive(tabs[i], TRUE)>>
            /\ activeTabId' = last'.tabId
       /\ Did("closeAllTabs") =>
            /\ tabs' = <<>>
            /\ activeTabId' = Null
    ]_vars

\* C7 witness: closeOtherTabs was called for one of several open tabs and
\* that tab alone is left.
C7_Witness ==
    /\ last.op = "closeOtherTabs"
    /\ last.kind = "others"
    /\ Len(tabs) = 1
    /\ tabs[1].id = last.tabId

\* C8: switchToTab of an open tab makes it the only active tab and sets its
\* lastAccessed to the current time, and leaves unchanged the list order,
\* the set of tabs, all titles and unsaved-changes flags, and the
\* lastAccessed of every other tab.
C8_SwitchToTabFrame ==
    [][(Did("switchToTab") /\ last'.kind = "open") =>
        /\ Len(tabs') = Len(tabs)
        /\ \A i \in 1..Len(tabs) :
              tabs'[i] = [tabs[i] EXCEPT
                            !.isActive = (tabs[i].id = last'.tabId),
                            !.lastAccessed =
                                IF tabs[i].id = last'.tabId THEN now ELSE @]
    ]_vars

\* C8 witness: at time 1 an inactive tab was made active beside a tab with a
\* changed title or the unsaved-changes flag, last accessed at time 0.
C8_Witness ==
    /\ last.op = "switchToTab"
    /\ last.kind = "open"
    /\ now = 1
    /\ \E i, j \in 1..Len(tabs) :
          /\ tabs[i].id = last.tabId
          /\ tabs[i].lastAccessed = 1
          /\ i # j
          /\ Edited(tabs[j])
          /\ tabs[j].lastAccessed = 0

\* C9: for all fromIndex and toIndex, reorderTabs leaves unchanged the set
\* of open tabs, each tab's id, title and unsaved-changes flag, and which tab
\* is active; only the order may change.
C9_ReorderKeepsTabs ==
    [][Did("reorderTabs") =>
        /\ Len(tabs') = Len(tabs)
        /\ \A i \in 1..Len(tabs) : \E j \in 1..Len(tabs') : tabs'[j] = tabs[i]
        /\ activeTabId' = activeTabId
    ]_vars

\* C9 input: a list of one tab on which reorderTabs was called with a
\* fromIndex beyond its end, which put a slot that holds no tab before it.
C9_Reached ==
    /\ last.op = "reorderTabs"
    /\ last.kind = "beyond"
    /\ Len(tabs) = 2
    /\ ~IsTab(tabs[1])
    /\ IsTab(tabs[2])

\* s after m calls of switchToNextTab at time t.
RECURSIVE NextTimes(_, _, _)
NextTimes(s, m, t) ==
    IF m = 0 THEN s ELSE NextTimes(switchToNextTab(s, t), m - 1, t)

\* The 1-based list index of the tab that (k-1) mod n and (k+1) mod n name
\* for the 0-based index k-1 of the claim.
CyclicNext(k, n) == (k % n) + 1
CyclicPrevious(k, n) == ((k + n - 2) % n) + 1

\* Only the tab at index k of list is active, and it is the recorded one.
OnlyActiveAt(list, active, k) ==
    /\ \A i \in 1..Len(list) : list[i].isActive = (i = k)
    /\ active = list[k].id

\* C10: with n >= 2 open tabs and the active tab at index k, switchToNextTab
\* makes the tab at index (k+1) mod n active and switchToPreviousTab the tab
\* at index (k-1) mod n, so next followed by previous restores the same
\* active tab and n consecutive nexts return to it; with at most one open
\* tab both leave the state unchanged.
C10_CyclicNavigation ==
    /\ [][LET n == Len(tabs)
              k == IndexOfActive(tabs)
          IN  /\ (Did("switchToNextTab") /\ n >= 2 /\ k # 0) =>
                    /\ OnlyActiveAt(tabs', activeTabId', CyclicNext(k, n))
                    /\ \A i \in 1..n : tabs'[i].id = tabs[i].id
              /\ (Did("switchToPreviousTab") /\ n >= 2 /\ k # 0) =>
                    /\ OnlyActiveAt(tabs', activeTabId', CyclicPrevious(k, n))
                    /\ \A i \in 1..n : tabs'[i].id = tabs[i].id
              /\ ((Did("switchToNextTab") \/ Did("switchToPreviousTab"))
                    /\ n <= 1) =>
                    (tabs' = tabs /\ activeTabId' = activeTabId)
       ]_vars
    /\ [](LET n == Len(tabs)
              k == IndexOfActive(tabs)
          IN  (Alive /\ n >= 2 /\ k # 0) =>
                /\ IndexOfActive(
                     switchToPreviousTab(switchToNextTab(Cur, now), now).tabs) = k
                /\ switchToPreviousTab(switchToNextTab(Cur, now), now).activeTabId
                     = tabs[k].id
                /\ IndexOfActive(NextTimes(Cur, n, now).tabs) = k
                /\ NextTimes(Cur, n, now).activeTabId = tabs[k].id)

\* C10 witness: with three tabs open switchToNextTab wrapped around from the
\* last tab to the first, which alone is active.
C10_Witness ==
    /\ last.op = "switchToNextTab"
    /\ last.kind = "move"
    /\ Len(tabs) = 3
    /\ OnlyActiveAt(tabs, activeTabId, 1)
    /\ tabs[3].lastAccessed = 1
    /\ tabs[1].lastAccessed = 1

\* The session loadTabs reads from the store, its dates parsed.
Persisted == loadTabs(Cur, storage)

\* The tab is bound to a page that was deleted after the session was saved.
BoundToDeletedSinceSave(tab) ==
    /\ tab.type = "page"
    /\ tab.pageId \in deleted \ deletedAtSave

\* C11: saveTabs followed by loadTabs reproduces the ordered tab list and
\* the active-tab id of the time of saveTabs, except that every tab bound to
\* a page deleted between the two calls is absent from the restored list.
C11_RestoreDropsDeleted ==
    [][((Did("loadTabs") \/ Did("mount")) /\ last'.kind = "loaded") =>
        LET Kept(tab) == ~BoundToDeletedSinceSave(tab)
            kept == SelectSeq(Persisted.tabs, Kept)
        IN  /\ tabs' = kept
            /\ (\E i \in 1..Len(kept) : kept[i].id = storage.activeTabId)
                  => activeTabId' = storage.activeTabId
    ]_vars

\* C11 input: a saved session was loaded after the page of its tab had
\* been deleted, and the tab bound to that page is open.
C11_Reached ==
    /\ last.op = "loadTabs"
    /\ last.kind = "loaded"
    /\ Len(tabs) = 1
    /\ \E i \in 1..Len(tabs) : BoundToDeletedSinceSave(tabs[i])

\* Without a deletion between the two calls the round trip is exact: the
\* list and the active id loadTabs sets are those saveTabs was called with.
RoundTripExact ==
    LET back == loadTabs(State(<<>>, Null), saveTabs(Cur)) IN
    /\ back.tabs = tabs
    /\ back.activeTabId = activeTabId

\* C12: loadTabs never propagates a failure to its caller, whatever the
\* store holds; when no session was saved or the stored value cannot be
\* deserialized, the tab list and the active-tab id are left as they were.
C12_LoadNeverFails ==
    [][Did("loadTabs") =>
        /\ last'.kind \in {"nothing", "caught", "loaded"}
        /\ (damage = "none" /\ ~storage.saved) => last'.kind = "nothing"
        /\ damage \in Damages => last'.kind = "caught"
        /\ last'.kind \in {"nothing", "caught"} =>
              (tabs' = tabs /\ activeTabId' = activeTabId)
    ]_vars

\* C12 witness: loadTabs was called with two tabs open, one of them active,
\* on a store whose value cannot be deserialized, and both are still open.
C12_Witness ==
    /\ last.op = "loadTabs"
    /\ last.kind = "caught"
    /\ damage \in Damages
    /\ Len(tabs) = 2
    /\ activeTabId # Null

\* C13: the auto-save timer persists the session once every period however
\* often the tab list or the active tab changes: no change waits longer than
\* one period to be persisted, and no operation restarts the period.
C13_PersistedWithinPeriod ==
    /\ [](staleFor <= AUTO_SAVE_PERIOD)
    /\ [][last'.op \notin {"elapse", "autoSave"} => timer' = timer]_vars

\* C13: a session that has differed from the stored one for more than one
\* period, the interval having run for less than one.
C13_Starved ==
    /\ staleFor > AUTO_SAVE_PERIOD
    /\ timer < AUTO_SAVE_PERIOD
    /\ Dirty
    /\ Len(tabs) >= 1

\* C14: the result of a page fetch that arrives after its fetch was
\* superseded (its tab is no longer the active one: the user switched away
\* from it or closed it) is discarded: it changes neither a tab's title nor
\* the cached page content.
C14_StaleResultDiscarded ==
    [][(last'.op = "fetchArrives" /\ last'.kind = "superseded") =>
        /\ pageContent' = pageContent
        /\ \A i \in 1..Len(tabs) :
              \E j \in 1..Len(tabs') :
                 tabs'[j].id = tabs[i].id /\ tabs'[j].title = tabs[i].title
    ]_vars

\* C14: the result of a fetch made for a tab the user has switched away
\* from has arrived: the page is cached and the tab, still open and not
\* active, has the fetched title.
C14_StaleApplied ==
    /\ last.op = "fetchArrives"
    /\ last.kind = "superseded"
    /\ last.pageId \in pageContent
    /\ \E i \in 1..Len(tabs) :
         /\ tabs[i].id = last.tabId
         /\ ~tabs[i].isActive
         /\ tabs[i].title \in NewTitles

\* A fetch result that arrives while its tab is the active one is applied.
C14_CurrentResultApplied ==
    [][(last'.op = "fetchArrives" /\ last'.kind = "current") =>
        last'.pageId \in pageContent'
    ]_vars

\* The calls of the notebook provider C15 is about.
MutatingCalls ==
    {"createNotebook", "updateNotebook", "deleteNotebook", "deleteSection",
     "deletePage"}

\* C15: when the store call behind createNotebook, updateNotebook,
\* deleteNotebook, deleteSection or deletePage fails, the notebook list and
\* the current notebook, section and page are as before the call, the error
\* is recorded and the failure is re-raised; the call raises only then.
C15_FailureLeavesStateAlone ==
    [][last'.op \in MutatingCalls =>
        /\ last'.kind = "raised" =>
              /\ nb'.notebooks = nb.notebooks
              /\ nb'.currentNotebook = nb.currentNotebook
              /\ nb'.currentSection = nb.currentSection
              /\ nb'.currentPage = nb.currentPage
              /\ nb'.error # ""
              /\ backend' = backend
        /\ last'.kind = "returned" => nb'.error = ""
    ]_vars

\* C15 witness: a call failed with two notebooks listed, one of them the
\* current notebook, and a page selected.
C15_Witness ==
    /\ last.op \in MutatingCalls
    /\ last.kind = "raised"
    /\ nb.error = "PersistenceFailure"
    /\ Len(nb.notebooks) = 2
    /\ nb.currentNotebook # Null
    /\ nb.currentPage # Null

\* The pages above the page id: its parent, its parent's parent, ...
RECURSIVE Ancestors(_, _)
Ancestors(pages, ids) ==
    LET up == {q.parent_page_id : q \in {r \in pages : r.id \in ids}} \ {Null}
        more == ids \cup (up \cap IdsOf(pages))
    IN  IF more = ids THEN ids ELSE Ancestors(pages, more)

ProperAncestors(pages, page) ==
    IF page.parent_page_id = Null \/ page.parent_page_id \notin IdsOf(pages)
    THEN {}
    ELSE Ancestors(pages, {page.parent_page_id})

\* The parent relation is a forest within each notebook: no page is its own
\* ancestor, every parent is a stored page (so every chain of parents ends
\* at a page without parent) of the same notebook.
ParentForest(pages) ==
    \A page \in pages :
        /\ page.id \notin ProperAncestors(pages, page)
        /\ page.parent_page_id # Null =>
              /\ page.parent_page_id \in IdsOf(pages)
              /\ Resolve(pages, page.parent_page_id).notebook_id = page.notebook_id

\* section_id or parent_page_id names an entity that is not in notebook_id.
OutsideNotebook(notebook_id, section_id, parent_page_id) ==
    \/ /\ section_id # Null
       /\ \A x \in backend.sections :
             x.id = section_id => x.notebook_id # notebook_id
    \/ /\ parent_page_id # Null
       /\ \A q \in backend.pages :
             q.id = parent_page_id => q.notebook_id # notebook_id

\* C16: after any sequence of create_page calls, rejected ones included, the
\* parent relation over the stored pages is acyclic, every chain of parents
\* ends at a page without parent and every page is in its parent's
\* notebook; a create_page whose parent or section lies outside notebook_id
\* fails InvalidHierarchy and stores nothing.
C16_ParentForest ==
    /\ [](ParentForest(backend.pages))
    /\ [][\A n \in NotebookRange, s \in {Null} \cup SectionRange,
            p \in {Null} \cup PageRange :
            (CreatePage(n, s, p, FALSE) /\ OutsideNotebook(n, s, p)) =>
                /\ backend' = backend
                /\ last'.kind = "raised"
                /\ nb'.error = "InvalidHierarchy"
       ]_vars

\* C16 witness: with two notebooks and a sub-page stored, a create_page was
\* rejected as InvalidHierarchy.
C16_Witness ==
    /\ last.op = "createPage"
    /\ last.kind = "raised"
    /\ nb.error = "InvalidHierarchy"
    /\ Cardinality(backend.notebooks) = 2
    /\ \E page \in backend.pages :
          Cardinality(ProperAncestors(backend.pages, page)) = 1

\* C17: after any sequence of create and delete operations on notebooks,
\* sections, pages and links, the source and the target of every remaining
\* link are stored pages.
C17_LinksResolve ==
    \A l \in backend.links :
        /\ l.source_page_id \in IdsOf(backend.pages)
        /\ l.target_page_id \in IdsOf(backend.pages)

\* C17 witness: after a deleteNotebook, one of the two links created is
\* gone, as is one of the pages, and the other link remains.
C17_Witness ==
    /\ last.op = "deleteNotebook"
    /\ last.kind = "returned"
    /\ backend.linkIds = 2
    /\ Cardinality(backend.links) = 1
    /\ backend.pageIds = 3
    /\ Cardinality(backend.pages) = 2

CascadeReachesSections ==
    [][/\ \A id \in NotebookRange :
            (DeleteNotebook(id, FALSE) /\ last'.kind = "returned") =>
                LET secs == {x.id : x \in {y \in backend.sections : y.notebook_id = id}}
                    inside == {q.id : q \in {r \in backend.pages : r.section_id \in secs}}
                IN  /\ get_hierarchy(backend', id).err = "NotFound"
                    /\ \A x \in backend'.sections : x.notebook_id # id
                    /\ IdsOf(backend'.pages) \cap Subtree(backend.pages, inside) = {}
       /\ \A id \in PageRange :
            (DeleteStoredPage(id, FALSE) /\ last'.kind = "returned") =>
                IdsOf(backend'.pages) \cap Subtree(backend.pages, {id}) = {}
    ]_vars

\* C19: the backlinks reported for a page T are exactly the stored links
\* whose target is T, whatever the order in which they were created and
\* whichever pages are their sources.
C19_BacklinksExact ==
    [][last'.op = "loadData" =>
        linking'.backlinks = get_backlinks(backend, linking'.currentPageId)
    ]_vars

\* C19: loadData has run for a page that two stored links from different
\* pages target, and it reports no backlink.
C19_BacklinksMissing ==
    /\ last.op = "loadData"
    /\ linking.backlinks = {}
    /\ Cardinality(get_backlinks(backend, linking.currentPageId)) = 2
    /\ Cardinality({k.source_page_id :
                       k \in get_backlinks(backend, linking.currentPageId)}) = 2
    /\ Cardinality(linking.allPages) = 2

\* C20: no stored link has its source as its target: create_link with
\* source = target fails InvalidHierarchy and leaves the links as they were,
\* and the pages the link dialog proposes never include the current page.
C20_NoSelfLink ==
    /\ [](\A k \in backend.links : k.source_page_id # k.target_page_id)
    /\ [](linking.currentPageId \notin linking.allPages)
    /\ [][\A page \in PageRange :
            CreateLink(page, page) =>
                /\ backend'.links = backend.links
                /\ last'.kind = "InvalidHierarchy"
       ]_vars

\* C20 witness: every page id resolves, so the create_link that was just
\* rejected named one page twice; a link is stored and the dialog of the
\* mounted PageLinking proposes the two other pages.
C20_Witness ==
    /\ last.op = "create_link"
    /\ last.kind = "InvalidHierarchy"
    /\ IdsOf(backend.pages) = PageRange
    /\ backend.links # {}
    /\ linking.currentPageId \in PageRange
    /\ linking.allPages = PageRange \ {linking.currentPageId}

\* C21: when the title of a page changes in the editor while a tab bound to
\* the page is open, the title of that tab becomes the new title.
C21_TabFollowsTitle ==
    [][last'.op = "titleEffect" =>
        \A i \in 1..Len(tabs') :
            tabs'[i].pageId = last'.pageId => tabs'[i].title = last'.kind
    ]_vars

\* C21: the title effect has run for the page of the active tab, beside
\* another tab, and the tab still has the title it was opened with.
C21_TitleNotApplied ==
    /\ last.op = "titleEffect"
    /\ Len(tabs) = 2
    /\ \E i \in 1..Len(tabs) :
          /\ tabs[i].id = last.tabId
          /\ tabs[i].isActive
          /\ tabs[i].pageId = last.pageId
          /\ tabs[i].title # last.kind

\* The tab list two openTab calls leave when each runs in a turn of its own.
SeparateTurns(first, second) ==
    LET r1  == openTab(Cur, first, nextId, now, FALSE)
        id2 == IF existingTab(tabs, first) # 0 THEN nextId ELSE nextId + 1
    IN  openTab(r1.state, second, id2, now, FALSE).state.tabs

\* No two tabs of the list are bound to the same page.
OnePerPage(list) ==
    \A i, j \in 1..Len(list) :
        (list[i].type = "page" /\ list[j].type = "page"
            /\ list[i].pageId = list[j].pageId) => i = j

\* C22: two openTab calls issued in the same event turn leave the tab list
\* that the two calls leave in separate turns, with at most one tab per page
\* and at most MAX_TABS tabs.
C22_SameTurnAsSeparate ==
    [][\A first, second \in Descriptors, eager \in BOOLEAN :
          OpenTwoTabs(first, second, eager) =>
              /\ tabs' = SeparateTurns(first, second)
              /\ OnePerPage(tabs) => OnePerPage(tabs')
              /\ Len(tabs) <= MAX_TABS => Len(tabs') <= MAX_TABS
      ]_vars

\* Two opens of one page in a single turn, with MAX_TABS - 1 tabs open: the
\* page has two tabs, and the list holds more than MAX_TABS tabs.
C22_TwoTabsOnePage ==
    /\ last.op = "openTwo"
    /\ last.kind = "append"
    /\ ~OnePerPage(tabs)
    /\ Len(tabs) = MAX_TABS + 1

\* C23: once a page is deleted while a tab bound to it is open, the tab is
\* eventually closed: a state follows in which no tab is bound to the page.
C23_DeletedPageTabCloses ==
    \A p \in PageIds : (p \in deleted /\ BoundTo(p)) ~> ~BoundTo(p)

\* The page of an open tab was deleted, the auto-save interval has fired
\* since, and the tab is still open and still the active one.
C23_TabOutlivesPage ==
    /\ last.op = "autoSave"
    /\ \E i \in 1..Len(tabs) :
          /\ tabs[i].type = "page"
          /\ tabs[i].pageId \in deleted
          /\ tabs[i].isActive
    /\ \A i \in 1..Len(storage.tabs) : storage.tabs[i].pageId \in deleted

\* C24: openTab with a descriptor that has no pageId (the route effect on a
\* fixed route, the New Tab button) reuses no tab: it appends a tab with an
\* id no open tab had, after evicting one tab when the list was full, and
\* that tab is the only one whose isActive is true.
C24_NoPageAlwaysAppends ==
    [][(last'.op \in {"routeEffect", "openTab"} /\ last'.pageId = NoPage
            /\ last'.kind # "nothing") =>
          LET n == Len(tabs') IN
          /\ n = IF Len(tabs) >= MAX_TABS THEN Len(tabs) ELSE Len(tabs) + 1
          /\ tabs'[n].id = last'.tabId
          /\ last'.tabId \notin OpenIds
          /\ tabs'[n].type = IF last'.op = "openTab" THEN "dashboard"
                             ELSE RouteDescriptor(sync.route).type
          /\ \A i \in 1..n : tabs'[i].isActive <=> i = n
          /\ \A i \in 1..(n - 1) : \E j \in 1..Len(tabs) :
                 tabs'[i] = [tabs[j] EXCEPT !.isActive = FALSE]
      ]_vars

\* The route effect has opened a Search tab while two Search tabs were open
\* in a full list: the three tabs are Search tabs, the new one is active.
C24_Witness ==
    /\ last.op = "routeEffect"
    /\ last.kind = "evict"
    /\ sync.route = "/search"
    /\ Len(tabs) = MAX_TABS
    /\ \A i \in 1..Len(tabs) : tabs[i].type = "search"
    /\ tabs[Len(tabs)].id = last.tabId
    /\ tabs[Len(tabs)].isActive

\* C27: on a fixed route the route synchronisation comes to rest when the
\* user does nothing more: the session does not go on for ever with runs of
\* the route effect alone.  Again and again the effect is not due (the tab
\* list has stopped changing) or the last step was the user's.
C27_SyncComesToRest ==
    []<>(\/ ~sync.due
         \/ sync.route \notin FixedRoutes
         \/ last.op # "routeEffect")

\* On the start route the route effect has filled the list with Dashboard
\* tabs, has evicted one of them to open yet another, and is due again.
C27_EffectNeverSettles ==
    /\ last.op = "routeEffect"
    /\ last.kind = "evict"
    /\ sync.route = "/"
    /\ sync.due
    /\ Len(tabs) = MAX_TABS
    /\ \A i \in 1..Len(tabs) : tabs[i].type = "dashboard"

\* The ids of the tabs whose isActive is true.
ActiveFlags == {tabs[i].id : i \in {j \in 1..Len(tabs) : tabs[j].isActive}}

\* C25: the recorded active id agrees with the flags: it is null when no tab
\* has isActive true, and otherwise it is the id of the one tab that has.
C25_ActiveIdAgrees ==
    IF ActiveFlags = {} THEN activeTabId = Null
    ELSE ActiveFlags = {activeTabId}

\* openTab has evicted the active tab of a full list: the appended tab is
\* the one whose isActive is true, and the recorded active id is the id of
\* another open tab, the neighbour that closeTab's updater activated.
C25_EvictionLeavesNeighbourId ==
    /\ last.op = "openTab"
    /\ last.kind = "evict"
    /\ Len(tabs) = MAX_TABS
    /\ ActiveFlags = {last.tabId}
    /\ activeTabId # last.tabId
    /\ activeTabId \in OpenIds

\* C26: switchToTab and closeOtherTabs called with an id that no open tab
\* has leave the tab list, with every isActive flag, and the recorded active
\* id as they were.
C26_UnknownIdChangesNothing ==
    [][(last'.op \in {"switchToTab", "closeOtherTabs"}
            /\ last'.tabId \notin OpenIds) =>
          (tabs' = tabs /\ activeTabId' = activeTabId)
      ]_vars

\* switchToTab was called with the id of a closed tab while two tabs were
\* open: no tab has isActive any more and the recorded active id is the id
\* of the closed tab.
C26_SwitchedToClosedTab ==
    /\ last.op = "switchToTab"
    /\ last.tabId \notin OpenIds
    /\ Len(tabs) = 2
    /\ ActiveFlags = {}
    /\ activeTabId = last.tabId

\* No getPage call is in flight and the page-load effect has nothing to do.
LoaderAtRest == fetching = {} /\ ~ENABLED LoadPageEffect

\* At most one getPage call per page is in flight.
OneFetchPerPage == \A f, g \in fetching : f.pageId = g.pageId => f = g

\* C28: for a page that does not resolve the loader issues finitely many
\* fetches and then rests until the user acts: the session does not go on
\* for ever with fetches started by the effect and their failures alone;
\* and at most one fetch per page is in flight.
C28_LoaderComesToRest ==
    /\ []OneFetchPerPage
    /\ []<>(last.op \notin {"getPage", "fetchFails"} \/ LoaderAtRest)

\* The page-load effect has fetched a page again whose load had ended in an
\* error, the error still recorded and Retry not pressed.
C28_RefetchedAfterError ==
    /\ last.op = "getPage"
    /\ last.pageId \in error
    /\ last.pageId \in loading
    /\ last.pageId \notin pageContent

\* C29: under strictly increasing timestamps, whenever the list holds
\* MAX_TABS tabs, the tab openTab would evict (the one with the smallest
\* lastAccessed) is not the active tab.
C29_OldestIsNotActive ==
    Len(tabs) = MAX_TABS => ~tabs[oldestTab(tabs)].isActive

\* openTab has evicted a tab of a full list: the list is full again, the
\* new tab is active and stamped with the present time, and the tab with
\* the smallest id among the others is not the oldest one: it was activated
\* again after a later tab was opened, and the eviction passed it over.
C29_Witness ==
    /\ last.op = "openTab"
    /\ last.kind = "evict"
    /\ Len(tabs) = MAX_TABS
    /\ tabs[MAX_TABS].isActive
    /\ tabs[MAX_TABS].lastAccessed = now
    /\ \E i \in 1..(MAX_TABS - 1) :
          /\ tabs[i].lastAccessed > tabs[oldestTab(tabs)].lastAccessed
          /\ \A j \in 1..(MAX_TABS - 1) : tabs[j].id > tabs[i].id \/ j = i

\* C30: the loading flag of the notebook context is true exactly when at
\* least one call started through the context has not settled.
C30_LoadingIffInFlight == nb.loading <=> fetching # {}

\* Two getPage calls overlapped and one of them has settled: the other is
\* still in flight and the loading flag of the context is false.
C30_FlagClearedEarly ==
    /\ last.op \in {"fetchArrives", "fetchFails"}
    /\ Cardinality(fetching) = 1
    /\ \A f \in fetching : f.pageId # last.pageId
    /\ ~nb.loading

====
